---- MODULE Spec2Model ----
(***************************************************************************)
(* Action planner back end (backend/llama_action_planner.py and            *)
(* backend/backend_server.py): response normalisation, plan sanitisation,  *)
(* the secret store (.env file mirrored into the process environment),     *)
(* the task plan store (tasks/<name>.json, tasks/<name>_steps.txt) and the *)
(* stepwise renderer.                                                      *)
(*                                                                         *)
(* A Python str is a sequence of one-character strings, so that the        *)
(* regular expressions of the source are modelled character by character.  *)
(* A character that a TLA+ string literal cannot hold is written by name:  *)
(* "BACKTICK" is U+0060, "WARNING_SIGN" U+26A0, "VARIATION_SELECTOR"       *)
(* U+FE0F.                                                                 *)
(***************************************************************************)
EXTENDS Integers, Sequences, FiniteSets, TLC

VARIABLES
    envFile,     \* contents of ENV_FILE (".env"), a str
    environ,     \* os.environ restricted to the keys the program sets
    taskFiles,   \* tasks/<name>.json: task name -> file contents
    stepFiles,   \* tasks/<name>_steps.txt: task name -> file contents
    ret,         \* record of the last call: its arguments, result and pre-state
    hist,        \* history of the store_in_env calls made so far
    input,       \* the argument under test of the pure-function specifications
    nOps         \* number of calls made so far

vars == <<envFile, environ, taskFiles, stepFiles, ret, hist, input, nOps>>

----------------------------------------------------------------------------
(* Characters and str methods                                              *)

LowerLetters == <<"a", "b", "c", "d", "e", "f", "g", "h", "i", "j", "k", "l", "m", "n", "o", "p", "q", "r", "s", "t", "u", "v", "w", "x", "y", "z">>

UpperLetters == <<"A", "B", "C", "D", "E", "F", "G", "H", "I", "J", "K", "L", "M", "N", "O", "P", "Q", "R", "S", "T", "U", "V", "W", "X", "Y", "Z">>

Digits == <<"0", "1", "2", "3", "4", "5", "6", "7", "8", "9">>

Range(s) == {s[i] : i \in 1..Len(s)}

DigitSet == Range(Digits)

IsDigit(c) == c \in DigitSet

\* \w of the re module (ASCII part)
WordSet == Range(LowerLetters) \cup Range(UpperLetters) \cup DigitSet \cup {"_"}

IsWord(c) == c \in WordSet

\* \s of the re module, and the characters str.strip() removes
IsSpace(c) == c \in {" ", "\n", "\t", "\r"}

\* the letters as functions between the two cases
ToLower == [c \in Range(UpperLetters) |-> LowerLetters[CHOOSE i \in 1..26 : UpperLetters[i] = c]]

ToUpper == [c \in Range(LowerLetters) |-> UpperLetters[CHOOSE i \in 1..26 : LowerLetters[i] = c]]

\* c in the other case where the table f of letters has it
Folded(f, c) == IF c \in DOMAIN f THEN f[c] ELSE c

LowerChar(c) == Folded(ToLower, c)

UpperChar(c) == Folded(ToUpper, c)

\* str.lower()
Lower(s) == [i \in 1..Len(s) |-> LowerChar(s[i])]

\* str.upper()
Upper(s) == [i \in 1..Len(s) |-> UpperChar(s[i])]

\* v named within In: the value is computed once
Let(v, In(_)) == In(v)

\* s[i:] with a 1-based i
From(s, i) == SubSeq(s, i, Len(s))

\* p occurs in s at position i
MatchAt(s, i, p) == i >= 1 /\ i + Len(p) - 1 <= Len(s) /\ \A k \in 1..Len(p) : s[i + k - 1] = p[k]

\* case-insensitive variant (re.IGNORECASE) for a literal p in lower case
MatchAtI(s, i, p) ==
    i >= 1 /\ i + Len(p) - 1 <= Len(s) /\ \A k \in 1..Len(p) : LowerChar(s[i + k - 1]) = p[k]

\* str.startswith
StartsWith(s, p) == MatchAt(s, 1, p)

\* the Python test `p in s`
Contains(s, p) == \E i \in 1..(Len(s) + 1) : MatchAt(s, i, p)

Min(S) == CHOOSE n \in S : \A m \in S : n <= m

\* the first position at or after i where s ends or its character satisfies Stop
Scan(s, i, Stop(_)) ==
    CHOOSE j \in i..(Len(s) + 1) : (j > Len(s) \/ Stop(s[j])) /\ \A k \in i..(j - 1) : ~Stop(s[k])

Max(S) == CHOOSE n \in S : \A m \in S : n >= m

\* position of the first occurrence of p in s at or after i, 0 when none
Find(s, p, i) ==
    Let({j \in i..(Len(s) + 1) : MatchAt(s, j, p)}, LAMBDA hits : IF hits = {} THEN 0 ELSE Min(hits))

\* str.strip()
Strip(s) ==
    Let({i \in 1..Len(s) : ~IsSpace(s[i])},
        LAMBDA solid : IF solid = {} THEN <<>> ELSE SubSeq(s, Min(solid), Max(solid)))

\* str.replace(" ", "_")
ReplaceSpaces(s) == [i \in 1..Len(s) |-> IF s[i] = " " THEN "_" ELSE s[i]]

\* "".join(parts)
RECURSIVE Join(_)
Join(parts) == IF parts = <<>> THEN <<>> ELSE Head(parts) \o Join(Tail(parts))

\* \b of the re module between s[i-1] and s[i]
WordBoundary(s, i) == Cardinality({j \in {i - 1, i} : j >= 1 /\ j <= Len(s) /\ IsWord(s[j])}) = 1

----------------------------------------------------------------------------
(* Secret store: store_in_env and resolve_secret                           *)

\* f.readlines() of a file opened in text mode: lines keep their terminator,
\* and "\r" and "\r\n" are read as "\n" (universal newlines)
RECURSIVE ReadLines(_)
ReadLines(text) ==
    IF text = <<>> THEN <<>>
    ELSE IF \A i \in 1..Len(text) : text[i] \notin {"\n", "\r"} THEN <<text>>
    ELSE Let(Min({i \in 1..Len(text) : text[i] \in {"\n", "\r"}}), LAMBDA e :
             <<SubSeq(text, 1, e - 1) \o <<"\n">>>>
             \o ReadLines(From(text, IF text[e] = "\r" /\ e < Len(text) /\ text[e + 1] = "\n"
                                     THEN e + 2 ELSE e + 1)))

\* os.environ[key] = value raises for a name that is empty or holds "="
EnvironRejects(key) == key = <<>> \/ "=" \in Range(key)

\* os.environ[key] = value
SetEnviron(env, key, value) ==
    [k \in (DOMAIN env) \cup {key} |-> IF k = key THEN value ELSE env[k]]

\* os.getenv(key, "")
GetEnv(env, key) == IF key \in DOMAIN env THEN env[key] ELSE <<>>

\* a variant of FirstWithPrefix that compares the whole line with prefix
\* (line == prefix in place of line.startswith(prefix))
FirstEqualTo(lines, prefix) ==
    Let({i \in 1..Len(lines) : lines[i] = prefix},
        LAMBDA hits : IF hits = {} THEN 0 ELSE Min(hits))

\* index of the line store_in_env replaces: the first one starting with
\* prefix, 0 when the loop ends without a match
FirstWithPrefix(lines, prefix) ==
    Let({i \in 1..Len(lines) : StartsWith(lines[i], prefix)},
        LAMBDA hits : IF hits = {} THEN 0 ELSE Min(hits))

\* store_in_env(key, value) on the world w = [file, environ]; exc tells
\* whether the call raised (after the file was written)
store_in_env(w, key, value) ==
    Let(ReadLines(w.file), LAMBDA lines :
    Let(FirstWithPrefix(lines, key \o <<"=">>), LAMBDA i :
    Let(key \o <<"=">> \o value \o <<"\n">>, LAMBDA entry :
    Let(EnvironRejects(key), LAMBDA rejected :
        [file |-> Join(IF i # 0 THEN [lines EXCEPT ![i] = entry] ELSE Append(lines, entry)),
         environ |-> IF rejected THEN w.environ ELSE SetEnviron(w.environ, key, value),
         exc |-> rejected]))))

\* f"${{{env_key}}}"
Placeholder(key) == <<"$", "{">> \o key \o <<"}">>

\* the lengths n of the lazy group (.+?) with which ^\$\{(.+?)\}$ matches value
SecretKeyLens(value) ==
    {n \in 1..(Len(value) - 3) :
        /\ value[1] = "$" /\ value[2] = "{"
        /\ \A i \in 3..(2 + n) : value[i] # "\n"
        /\ value[3 + n] = "}"
        /\ \/ 3 + n = Len(value)
           \/ 4 + n = Len(value) /\ value[4 + n] = "\n"}

\* re.match(r"^\$\{.+\}$", value), the placeholder test of handle_login_credentials
IsPlaceholder(value) == SecretKeyLens(value) # {}

\* resolve_secret(value) for a str value
resolve_secret(value, env) ==
    Let(SecretKeyLens(value), LAMBDA lens :
        IF lens # {} THEN GetEnv(env, SubSeq(value, 3, 2 + Min(lens))) ELSE value)

----------------------------------------------------------------------------
(* JSON values, json.loads and json.dumps                                  *)

\* A JSON value is a record [t, s, kv]: t its type, s the characters of a
\* string or number, kv the entries of a dict (in insertion order, keys
\* unique) or the items of a list (as pairs with an empty key).
JNull == [t |-> "null", s |-> <<>>, kv |-> <<>>]

JStr(s) == [t |-> "str", s |-> s, kv |-> <<>>]

JNum(s) == [t |-> "num", s |-> s, kv |-> <<>>]

JBool(s) == [t |-> "bool", s |-> s, kv |-> <<>>]

JObj(kv) == [t |-> "obj", s |-> <<>>, kv |-> kv]

JArr(items) == [t |-> "arr", s |-> <<>>, kv |-> [i \in 1..Len(items) |-> <<<<>>, items[i]>>]]

\* the items of a list value
Items(v) == [i \in 1..Len(v.kv) |-> v.kv[i][2]]

\* key in d
HasKey(d, key) == \E i \in 1..Len(d.kv) : d.kv[i][1] = key

\* d.get(key, default)
Get(d, key, default) ==
    IF HasKey(d, key) THEN d.kv[CHOOSE i \in 1..Len(d.kv) : d.kv[i][1] = key][2] ELSE default

\* d[key] = val: an existing key keeps its position
DictSet(d, key, val) ==
    IF HasKey(d, key)
    THEN JObj([i \in 1..Len(d.kv) |-> IF d.kv[i][1] = key THEN <<key, val>> ELSE d.kv[i]])
    ELSE JObj(Append(d.kv, <<key, val>>))

ParseFail == [ok |-> FALSE, val |-> JNull, pos |-> 0]

\* first position at or after i that holds no JSON whitespace
SkipWs(t, i) == Scan(t, i, LAMBDA c : ~IsSpace(c))

\* the character an escape sequence \c of a JSON string stands for
Unescape(c) ==
    CASE c = "n" -> "\n" [] c = "t" -> "\t" [] c = "r" -> "\r" [] OTHER -> c

\* number of consecutive backslashes of t that end right before position j
\* and start at or after position i
BackslashRun(t, i, j) ==
    IF j <= i \/ t[j - 1] # "\\" THEN 0
    ELSE Cardinality({k \in i..(j - 1) : \A m \in k..(j - 1) : t[m] = "\\"})

\* the result of a parse that succeeded with val and stopped at pos
Parsed(val, pos) == [ok |-> TRUE, val |-> val, pos |-> pos]

\* the body of a JSON string from position i on (after the opening quote):
\* it ends at the first quote that no backslash escapes; a raw control
\* character or an unknown escape fails the parse (strict mode)
ScanString(t, i) ==
    LET Escaping(k) == t[k] = "\\" /\ BackslashRun(t, i, k) % 2 = 0
        Escaped(k) == k > i /\ Escaping(k - 1)
        Kept(k) == ~Escaping(k)
        Closing(j) == t[j] = "\"" /\ BackslashRun(t, i, j) % 2 = 0
    IN Let(CHOOSE j \in i..(Len(t) + 1) : (j > Len(t) \/ Closing(j)) /\ \A k \in i..(j - 1) : ~Closing(k),
           LAMBDA end :
           IF end > Len(t) THEN ParseFail
           ELSE IF \E k \in i..(end - 1) :
                       \/ t[k] \in {"\n", "\t", "\r"}
                       \/ Escaped(k) /\ t[k] \notin {"\"", "\\", "/", "n", "t", "r"}
                THEN ParseFail
           ELSE Let(SelectSeq([k \in 1..(end - i) |-> i + k - 1], Kept), LAMBDA body :
                    Parsed([n \in 1..Len(body) |->
                                IF Escaped(body[n]) THEN Unescape(t[body[n]]) ELSE t[body[n]]],
                           end + 1)))

\* end of the run of digits starting at i
SkipDigits(t, i) == Scan(t, i, LAMBDA c : ~IsDigit(c))

\* an integer literal at position i
ParseNumber(t, i) ==
    Let(IF t[i] = "-" THEN i + 1 ELSE i, LAMBDA d :
    Let(IF d <= Len(t) /\ t[d] = "0" THEN d + 1 ELSE SkipDigits(t, d), LAMBDA e :
        IF e > d THEN Parsed(JNum(SubSeq(t, i, e - 1)), e) ELSE ParseFail))

RECURSIVE ParseValue(_, _)
RECURSIVE ParseMembers(_, _, _)
RECURSIVE ParseItems(_, _, _)

\* the members of an object from position i on (i holds the quote of a key)
ParseMembers(t, i, acc) ==
    IF i > Len(t) \/ t[i] # "\"" THEN ParseFail
    ELSE Let(ScanString(t, i + 1), LAMBDA k :
         Let(SkipWs(t, k.pos), LAMBDA c :
             IF ~k.ok \/ c > Len(t) \/ t[c] # ":" THEN ParseFail
             ELSE Let(ParseValue(t, SkipWs(t, c + 1)), LAMBDA v :
                  Let(SkipWs(t, v.pos), LAMBDA e :
                  Let(DictSet(acc, k.val, v.val), LAMBDA d :
                      IF ~v.ok \/ e > Len(t) THEN ParseFail
                      ELSE IF t[e] = "}" THEN Parsed(d, e + 1)
                      ELSE IF t[e] = "," THEN ParseMembers(t, SkipWs(t, e + 1), d)
                      ELSE ParseFail)))))

\* the items of an array from position i on
ParseItems(t, i, acc) ==
    Let(ParseValue(t, i), LAMBDA v :
    Let(SkipWs(t, v.pos), LAMBDA e :
    Let(Append(acc, v.val), LAMBDA items :
        IF ~v.ok \/ e > Len(t) THEN ParseFail
        ELSE IF t[e] = "]" THEN Parsed(JArr(items), e + 1)
        ELSE IF t[e] = "," THEN ParseItems(t, SkipWs(t, e + 1), items)
        ELSE ParseFail)))

\* one JSON value at position i
ParseValue(t, i) ==
    IF i > Len(t) THEN ParseFail
    ELSE IF t[i] = "\""
         THEN Let(ScanString(t, i + 1), LAMBDA r : IF r.ok THEN Parsed(JStr(r.val), r.pos) ELSE ParseFail)
    ELSE IF t[i] \in {"{", "["}
         THEN Let(SkipWs(t, i + 1), LAMBDA j :
                  IF j <= Len(t) /\ t[i] = "{" /\ t[j] = "}" THEN Parsed(JObj(<<>>), j + 1)
                  ELSE IF j <= Len(t) /\ t[i] = "[" /\ t[j] = "]" THEN Parsed(JArr(<<>>), j + 1)
                  ELSE IF t[i] = "{" THEN ParseMembers(t, j, JObj(<<>>))
                  ELSE ParseItems(t, j, <<>>))
    ELSE IF \E w \in {<<"n", "u", "l", "l">>, <<"t", "r", "u", "e">>, <<"f", "a", "l", "s", "e">>} : MatchAt(t, i, w)
         THEN Parsed(IF t[i] = "n" THEN JNull ELSE JBool(IF t[i] = "t" THEN <<"t", "r", "u", "e">> ELSE <<"f", "a", "l", "s", "e">>),
                     IF t[i] = "f" THEN i + 5 ELSE i + 4)
    ELSE IF t[i] = "-" \/ IsDigit(t[i]) THEN ParseNumber(t, i)
    ELSE ParseFail

\* json.loads(text): ok is FALSE where it raises JSONDecodeError
json_loads(text) ==
    Let(ParseValue(text, SkipWs(text, 1)), LAMBDA v :
        IF v.ok /\ SkipWs(text, v.pos) = Len(text) + 1 THEN v ELSE ParseFail)

\* a variant of EscapeChar that leaves the backslash as it is
EscapeCharKeepsBackslash(c) ==
    CASE c = "\"" -> <<"\\", "\"">> [] c = "\n" -> <<"\\", "n">>
      [] c = "\t" -> <<"\\", "t">> [] c = "\r" -> <<"\\", "r">> [] OTHER -> <<c>>

\* the escape of one character inside a JSON string
EscapeChar(c) ==
    CASE c = "\"" -> <<"\\", "\"">> [] c = "\\" -> <<"\\", "\\">> [] c = "\n" -> <<"\\", "n">>
      [] c = "\t" -> <<"\\", "t">> [] c = "\r" -> <<"\\", "r">> [] OTHER -> <<c>>

\* the escapes of the characters of s, concatenated
EscapeAll(s) ==
    LET IsChar(c) == c # ""
        slots == [k \in 1..(2 * Len(s)) |->
                     LET e == EscapeChar(s[(k + 1) \div 2])
                     IN IF k % 2 = 0 THEN e[Len(e)] ELSE IF Len(e) = 2 THEN e[1] ELSE ""]
    IN SelectSeq(slots, IsChar)

DumpString(s) == <<"\"">> \o EscapeAll(s) \o <<"\"">>

Spaces(n) == [i \in 1..n |-> " "]

\* parts joined by sep
RECURSIVE JoinWith(_, _)
JoinWith(parts, sep) ==
    IF parts = <<>> THEN <<>>
    ELSE IF Len(parts) = 1 THEN parts[1]
    ELSE parts[1] \o sep \o JoinWith(Tail(parts), sep)

\* json.dumps(v, indent=indent) at nesting depth level; indent = -1 stands
\* for indent=None (one line, separators ", " and ": ")
RECURSIVE Dump(_, _, _)
Dump(v, indent, level) ==
    LET open == IF indent < 0 THEN <<>> ELSE <<"\n">> \o Spaces(indent * (level + 1))
        sep == IF indent < 0 THEN <<",", " ">> ELSE <<",">> \o <<"\n">> \o Spaces(indent * (level + 1))
        close == IF indent < 0 THEN <<>> ELSE <<"\n">> \o Spaces(indent * level)
    IN CASE v.t = "str" -> DumpString(v.s)
         [] v.t = "num" -> v.s
         [] v.t = "bool" -> v.s
         [] v.t = "null" -> <<"n", "u", "l", "l">>
         [] v.t = "arr" ->
                IF v.kv = <<>> THEN <<"[", "]">>
                ELSE <<"[">> \o open
                     \o JoinWith([i \in 1..Len(v.kv) |-> Dump(v.kv[i][2], indent, level + 1)], sep)
                     \o close \o <<"]">>
         [] v.t = "obj" ->
                IF v.kv = <<>> THEN <<"{", "}">>
                ELSE <<"{">> \o open
                     \o JoinWith([i \in 1..Len(v.kv) |->
                            DumpString(v.kv[i][1]) \o <<":", " ">> \o Dump(v.kv[i][2], indent, level + 1)], sep)
                     \o close \o <<"}">>

\* json.dumps(v)
json_dumps(v) == Dump(v, -1, 0)

\* json.dump(v, f, indent=2)
json_dump_indent2(v) == Dump(v, 2, 0)

----------------------------------------------------------------------------
(* Response normaliser and the URL / service-name stages                   *)

Fence == <<"BACKTICK", "BACKTICK", "BACKTICK">>

\* re.sub(r"```(?:json)?", "", text)
RECURSIVE StripFences(_)
StripFences(text) ==
    Let(Find(text, Fence, 1), LAMBDA f :
        IF f = 0 THEN text
        ELSE SubSeq(text, 1, f - 1)
             \o StripFences(From(text, IF MatchAt(text, f + 3, <<"j", "s", "o", "n">>) THEN f + 7 ELSE f + 3)))

\* re.search(r"\{.*\}", text, re.DOTALL): from the first "{" to the last "}"
\* after it; <<>> when there is no match
BraceMatch(text) ==
    Let(Find(text, <<"{">>, 1), LAMBDA a :
        IF a = 0 \/ \A i \in (a + 1)..Len(text) : text[i] # "}" THEN <<>>
        ELSE SubSeq(text, a, CHOOSE b \in (a + 1)..Len(text) :
                                 text[b] = "}" /\ \A k \in (b + 1)..Len(text) : text[k] # "}"))

RawTextObject(text) == JObj(<<<<<<"r", "a", "w", "_", "t", "e", "x", "t">>, JStr(text)>>>>)

\* clean_json_response(raw_text)
clean_json_response(raw_text) ==
    Let(BraceMatch(Strip(StripFences(raw_text))), LAMBDA text_clean :
        IF text_clean = <<>> THEN RawTextObject(raw_text)
        ELSE Let(json_loads(text_clean), LAMBDA loaded :
                 IF loaded.ok THEN loaded.val ELSE RawTextObject(text_clean)))

\* length of the match of https?://\S+ at position i of s, 0 when none
SkipNonSpace(s, i) == Scan(s, i, IsSpace)

UrlLenAt(s, i) ==
    Let(IF MatchAt(s, i, <<"h", "t", "t", "p", "s", ":", "/", "/">>) THEN 8 ELSE IF MatchAt(s, i, <<"h", "t", "t", "p", ":", "/", "/">>) THEN 7 ELSE 0,
        LAMBDA h : IF h > 0 /\ SkipNonSpace(s, i + h) > i + h THEN SkipNonSpace(s, i + h) - i ELSE 0)

\* position of the first URL of s at or after i, 0 when none
NextUrl(s, i) ==
    Let({j \in i..Len(s) : s[j] = "h" /\ UrlLenAt(s, j) > 0},
        LAMBDA hits : IF hits = {} THEN 0 ELSE Min(hits))

Website == <<"<", "w", "e", "b", "s", "i", "t", "e", ">">>

\* re.sub(r"https?://\S+", "<website>", s) from position i on
RECURSIVE RedactFrom(_, _)
RedactFrom(s, i) ==
    Let(NextUrl(s, i), LAMBDA u :
        IF u = 0 THEN From(s, i)
        ELSE SubSeq(s, i, u - 1) \o Website \o RedactFrom(s, u + UrlLenAt(s, u)))

\* remove_urls(obj): dict values, list items and strings, recursively
RECURSIVE remove_urls(_)
remove_urls(obj) ==
    CASE obj.t = "str" -> JStr(RedactFrom(obj.s, 1))
      [] obj.t \in {"obj", "arr"} ->
             [obj EXCEPT !.kv = [i \in 1..Len(obj.kv) |-> <<obj.kv[i][1], remove_urls(obj.kv[i][2])>>]]
      [] OTHER -> obj

\* service_map, in the order of the dict literal
service_map == <<
    <<<<"i", "n", "s", "t", "a", "g", "r", "a", "m">>, <<"I", "n", "s", "t", "a", "g", "r", "a", "m">>>>,
    <<<<"f", "a", "c", "e", "b", "o", "o", "k">>, <<"F", "a", "c", "e", "b", "o", "o", "k">>>>,
    <<<<"y", "o", "u", "t", "u", "b", "e">>, <<"Y", "o", "u", "T", "u", "b", "e">>>>,
    <<<<"t", "w", "i", "t", "t", "e", "r">>, <<"T", "w", "i", "t", "t", "e", "r">>>>,
    <<<<"g", "m", "a", "i", "l">>, <<"G", "m", "a", "i", "l">>>>,
    <<<<"l", "i", "n", "k", "e", "d", "i", "n">>, <<"L", "i", "n", "k", "e", "d", "I", "n">>>>,
    <<<<"t", "i", "k", "t", "o", "k">>, <<"T", "i", "k", "T", "o", "k">>>> >>

\* url_to_service(match): the name of the first domain the URL holds
url_to_service(url) ==
    Let({k \in 1..Len(service_map) : Contains(Lower(url), service_map[k][1])},
        LAMBDA hits : IF hits = {} THEN Website ELSE service_map[Min(hits)][2])

\* re.sub(r"https?://\S+", url_to_service, s) from position i on
RECURSIVE UrlsToServiceFrom(_, _)
UrlsToServiceFrom(s, i) ==
    Let(NextUrl(s, i), LAMBDA u :
        IF u = 0 THEN From(s, i)
        ELSE Let(u + UrlLenAt(s, u), LAMBDA e :
                 SubSeq(s, i, u - 1) \o url_to_service(SubSeq(s, u, e - 1)) \o UrlsToServiceFrom(s, e)))

\* re.compile(rf"\b{key}\b", re.IGNORECASE).sub(name, s) from position i on
RECURSIVE ReplaceWordFrom(_, _, _, _)
ReplaceWordFrom(s, i, key, name) ==
    Let({j \in i..Len(s) : MatchAtI(s, j, key) /\ \A e \in {j, j + Len(key)} : WordBoundary(s, e)},
        LAMBDA hits :
            IF hits = {} THEN From(s, i)
            ELSE SubSeq(s, i, Min(hits) - 1) \o name
                 \o ReplaceWordFrom(s, Min(hits) + Len(key), key, name))

\* the loop over service_map.items() from entry k on
RECURSIVE ReplaceServices(_, _)
ReplaceServices(s, k) ==
    IF k > Len(service_map) THEN s
    ELSE ReplaceServices(ReplaceWordFrom(s, 1, service_map[k][1], service_map[k][2]), k + 1)

\* replace_urls_with_service(obj)
RECURSIVE replace_urls_with_service(_)
replace_urls_with_service(obj) ==
    CASE obj.t = "str" -> JStr(ReplaceServices(UrlsToServiceFrom(obj.s, 1), 1))
      [] obj.t \in {"obj", "arr"} ->
             [obj EXCEPT !.kv = [i \in 1..Len(obj.kv) |->
                                    <<obj.kv[i][1], replace_urls_with_service(obj.kv[i][2])>>]]
      [] OTHER -> obj

----------------------------------------------------------------------------
(* Credential extractor                                                    *)

IsQuote(c) == c \in {"'", "\""}

\* end of the run of whitespace starting at i
SkipSpace(s, i) == Scan(s, i, LAMBDA c : ~IsSpace(c))

NoMatch == [ok |-> FALSE, group |-> <<>>, end |-> 0]

\* length of the first of the alternatives words (tried in order, without
\* regard to case) that matches s at position i, 0 when none does
AltLenAt(s, i, words) ==
    Let({w \in 1..Len(words) : MatchAtI(s, i, words[w])},
        LAMBDA hits : IF hits = {} THEN 0 ELSE Len(words[Min(hits)]))

\* (?:username|user|login as)\s+['"]?([^\s,'"]+)['"]? at position i
UsernameAt(s, i) ==
    Let(i + AltLenAt(s, i, <<<<"u", "s", "e", "r", "n", "a", "m", "e">>, <<"u", "s", "e", "r">>, <<"l", "o", "g", "i", "n", " ", "a", "s">>>>), LAMBDA a :
    Let(SkipSpace(s, a), LAMBDA p :
    Let(IF p <= Len(s) /\ IsQuote(s[p]) THEN p + 1 ELSE p, LAMBDA q :
    Let(Scan(s, q, LAMBDA c : IsSpace(c) \/ c = "," \/ IsQuote(c)), LAMBDA e :
            IF a = i \/ p = a \/ e = q THEN NoMatch
            ELSE [ok |-> TRUE, group |-> SubSeq(s, q, e - 1),
                  end |-> IF e <= Len(s) /\ IsQuote(s[e]) THEN e + 1 ELSE e]))))

\* [\w\.-]
IsMailChar(c) == IsWord(c) \/ c \in {".", "-"}

\* end of the run of [\w\.-] starting at i
SkipMailChars(s, i) == Scan(s, i, LAMBDA c : ~IsMailChar(c))

\* [\w\.-]+@[\w\.-]+\.\w+ at position i
EmailAt(s, i) ==
    Let(SkipMailChars(s, i), LAMBDA a :
    Let(SkipMailChars(s, a + 1), LAMBDA r :
    Let({d \in (a + 2)..(r - 2) : s[d] = "." /\ IsWord(s[d + 1])}, LAMBDA dots :
        IF a = i \/ a > Len(s) \/ s[a] # "@" \/ dots = {} THEN NoMatch
        ELSE Let(Scan(s, Max(dots) + 1, LAMBDA c : ~IsWord(c)), LAMBDA e : [ok |-> TRUE, group |-> SubSeq(s, i, e - 1), end |-> e]))))

\* (?:\+91|0)?[6-9]\d{9} at position i
PhoneAt(s, i) ==
    Let(i + AltLenAt(s, i, <<<<"+", "9", "1">>, <<"0">>>>), LAMBDA p :
        IF p + 9 <= Len(s) /\ s[p] \in {"6", "7", "8", "9"} /\ \A j \in (p + 1)..(p + 9) : IsDigit(s[j])
        THEN [ok |-> TRUE, group |-> SubSeq(s, i, p + 9), end |-> p + 10]
        ELSE NoMatch)

\* the words that end a password in the lookahead of pwd_pattern; only the
\* first is matched without \b around it
Boundaries == <<<<"a", "n", "d">>, <<"u", "s", "e", "r", "n", "a", "m", "e">>, <<"u", "s", "e", "r">>, <<"e", "m", "a", "i", "l">>, <<"m", "a", "i", "l">>, <<"p", "h", "o", "n", "e">>, <<"n", "u", "m", "b", "e", "r">>>>

\* (?:and|,|\busername\b|...) at position j
BoundaryAt(s, j) ==
    \/ j <= Len(s) /\ s[j] = ","
    \/ \E b \in 1..Len(Boundaries) :
           /\ MatchAtI(s, j, Boundaries[b])
           /\ b > 1 => \A e \in {j, j + Len(Boundaries[b])} : WordBoundary(s, e)

\* the lookahead (?=(?:\s*(?:and|,|...)|$)) at position q; $ also matches
\* before a newline that ends the string
PwdLookahead(s, q) ==
    \/ q = Len(s) + 1
    \/ q = Len(s) /\ s[q] = "\n"
    \/ \E j \in q..SkipSpace(s, q) : BoundaryAt(s, j)

\* ['"]?(?=...) at position q, after the lazy group: the end of the match,
\* 0 when there is none.  The quote is taken when the lookahead holds after it.
PwdGroupEnd(s, q) ==
    IF q <= Len(s) /\ IsQuote(s[q]) /\ PwdLookahead(s, q + 1) THEN q + 1
    ELSE IF PwdLookahead(s, q) THEN q ELSE 0

\* (.+?)['"]? and the lookahead with the opening quote already consumed:
\* the lazy group starts at p and takes the least number of characters
\* (none a newline) after which the rest matches
PwdGroupAt(s, p) ==
    Let(Scan(s, p, LAMBDA c : c = "\n"), LAMBDA stop :
    Let({m \in 1..(stop - p) : PwdGroupEnd(s, p + m) > 0}, LAMBDA lens :
        IF lens = {} THEN NoMatch
        ELSE [ok |-> TRUE, group |-> SubSeq(s, p, p + Min(lens) - 1),
              end |-> PwdGroupEnd(s, p + Min(lens))]))

\* length of the connector (?:set|to|is|=|:) at position p, 0 when none
ConnectorLenAt(s, p) == AltLenAt(s, p, <<<<"s", "e", "t">>, <<"t", "o">>, <<"i", "s">>, <<"=">>, <<":">>>>)

\* The ways \s*(?:set|to|is|=|:)?\s*['"]? can match from position p0 are
\* ranked <<r1, c, r2, q>>: r1 and r2 the whitespace given back by the two
\* \s*, c = 0 when the connector is taken, q = 0 when the quote is taken.
\* The backtracking matcher tries them in lexicographic order of the ranks.
\* Position of the group for the way x, 0 when x matches no such prefix:
PwdGroupStart(s, p0, x) ==
    Let(SkipSpace(s, p0) - x[1], LAMBDA p1 :
    Let(ConnectorLenAt(s, p1), LAMBDA c :
    Let(IF x[2] = 0 THEN p1 + c ELSE p1, LAMBDA p2 :
    Let(SkipSpace(s, p2) - x[3], LAMBDA p3 :
        IF /\ x[2] = 0 => c > 0
           /\ p3 >= p2
           /\ x[4] = 0 => (p3 <= Len(s) /\ IsQuote(s[p3]))
        THEN (IF x[4] = 0 THEN p3 + 1 ELSE p3)
        ELSE 0))))

\* the way x is a match of the whole pattern
PwdWayMatches(s, p0, x) ==
    Let(PwdGroupStart(s, p0, x), LAMBDA g : g > 0 /\ PwdGroupAt(s, g).ok)

\* the most whitespace the second \s* can give back: the run the first \s*
\* gave back, or the run after the connector
PwdSpaceBound(s, p0) ==
    Let(SkipSpace(s, p0), LAMBDA p1 :
    Let(p1 + ConnectorLenAt(s, p1), LAMBDA p2 : Max({p1 - p0, SkipSpace(s, p2) - p2})))

RankLess(a, b) ==
    \E k \in 1..4 : a[k] < b[k] /\ \A j \in 1..(k - 1) : a[j] = b[j]

\* pwd_pattern at position i
PasswordAt(s, i) ==
    Let(i + AltLenAt(s, i, <<<<"p", "a", "s", "s", "w", "o", "r", "d">>, <<"p", "a", "s", "s">>>>), LAMBDA p0 :
        IF p0 = i \/ ~WordBoundary(s, p0) THEN NoMatch
        ELSE Let({x \in (0..(SkipSpace(s, p0) - p0)) \X (0..1) \X (0..PwdSpaceBound(s, p0)) \X (0..1) :
                     PwdWayMatches(s, p0, x)},
                 LAMBDA ways :
                     IF ways = {} THEN NoMatch
                     ELSE PwdGroupAt(s, PwdGroupStart(s, p0,
                              CHOOSE x \in ways : \A y \in ways : x = y \/ RankLess(x, y)))))

\* the match of the pattern named kind at position j
MatchOf(kind, s, j) ==
    CASE kind = "username" -> UsernameAt(s, j)
      [] kind = "email" -> EmailAt(s, j)
      [] kind = "phone" -> PhoneAt(s, j)
      [] kind = "password" -> PasswordAt(s, j)

\* the groups of the successive non-overlapping matches from position i on,
\* hits being the positions where the pattern matches
RECURSIVE MatchesFrom(_, _, _, _)
MatchesFrom(kind, s, i, hits) ==
    Let({j \in hits : j >= i}, LAMBDA later :
        IF later = {} THEN <<>>
        ELSE Let(MatchOf(kind, s, Min(later)), LAMBDA first :
                 <<first.group>> \o MatchesFrom(kind, s, first.end, later)))

\* re.findall for the pattern named kind, from position i on
FindAll(kind, s, i) == MatchesFrom(kind, s, i, {j \in i..Len(s) : MatchOf(kind, s, j).ok})

\* str.rstrip(".;")
RStripDots(s) ==
    Let({i \in 1..Len(s) : s[i] \notin {".", ";"}}, LAMBDA solid :
        IF solid = {} THEN <<>> ELSE SubSeq(s, 1, Max(solid)))

FillerWords == {<<"t", "o">>, <<"a", "n", "d">>, <<"w", "a", "s">>, <<"i", "s">>, <<"s", "e", "t">>, <<>>}

\* pwd_matches[-1].strip() as the password: None (JNull) for a filler word
PasswordOf(candidate) ==
    IF Lower(candidate) \notin FillerWords THEN JStr(RStripDots(candidate)) ELSE JNull

\* a variant of extract_credentials_from_instruction that takes the first
\* match of pwd_pattern (pwd_matches[0])
extract_credentials_first_match(instruction) ==
    Let(FindAll("password", instruction, 1), LAMBDA pwd_matches :
        [usernames |-> FindAll("username", instruction, 1),
         emails |-> FindAll("email", instruction, 1),
         phones |-> FindAll("phone", instruction, 1),
         password |-> IF pwd_matches = <<>> THEN JNull
                      ELSE PasswordOf(Strip(pwd_matches[1]))])

\* extract_credentials_from_instruction(instruction); password is JNull for None
extract_credentials_from_instruction(instruction) ==
    Let(FindAll("password", instruction, 1), LAMBDA pwd_matches :
        [usernames |-> FindAll("username", instruction, 1),
         emails |-> FindAll("email", instruction, 1),
         phones |-> FindAll("phone", instruction, 1),
         password |-> IF pwd_matches = <<>> THEN JNull
                      ELSE PasswordOf(Strip(pwd_matches[Len(pwd_matches)]))])
----------------------------------------------------------------------------
(* Credential substitution and the stepwise renderer                       *)

\* the truth value Python gives a JSON value
Truthy(v) ==
    CASE v.t = "str" -> v.s # <<>>
      [] v.t = "num" -> \E i \in 1..Len(v.s) : v.s[i] \notin {"0", "-"}
      [] v.t = "bool" -> v.s = <<"t", "r", "u", "e">>
      [] v.t = "null" -> FALSE
      [] OTHER -> v.kv # <<>>

\* the alternation of the pattern of detect_service_from_text
ServiceNames == <<<<"i", "n", "s", "t", "a", "g", "r", "a", "m">>, <<"f", "a", "c", "e", "b", "o", "o", "k">>, <<"y", "o", "u", "t", "u", "b", "e">>, <<"t", "w", "i", "t", "t", "e", "r">>, <<"g", "m", "a", "i", "l">>,
                  <<"l", "i", "n", "k", "e", "d", "i", "n">>, <<"t", "i", "k", "t", "o", "k">>>>

\* a variant of detect_service_from_text that returns the fallback as it is
\* given (return fallback in place of fallback.upper())
detect_service_fallback_as_given(text, fallback) ==
    Let({j \in 1..Len(text) : AltLenAt(text, j, ServiceNames) > 0}, LAMBDA hits :
        IF hits # {}
        THEN [exc |-> FALSE,
              s |-> Upper(SubSeq(text, Min(hits), Min(hits) + AltLenAt(text, Min(hits), ServiceNames) - 1))]
        ELSE IF fallback.t = "str" THEN [exc |-> FALSE, s |-> fallback.s]
        ELSE [exc |-> TRUE, s |-> <<>>])

\* a variant of detect_service_from_text that does not look at the text
\* (the service always comes from the fallback)
detect_service_from_fallback(text, fallback) ==
    IF fallback.t = "str" THEN [exc |-> FALSE, s |-> Upper(fallback.s)]
    ELSE [exc |-> TRUE, s |-> <<>>]

\* detect_service_from_text(text, fallback) for a str text; fallback is a
\* JSON value, and exc tells that fallback.upper() raised
detect_service_from_text(text, fallback) ==
    Let({j \in 1..Len(text) : AltLenAt(text, j, ServiceNames) > 0}, LAMBDA hits :
        IF hits # {}
        THEN [exc |-> FALSE,
              s |-> Upper(SubSeq(text, Min(hits), Min(hits) + AltLenAt(text, Min(hits), ServiceNames) - 1))]
        ELSE IF fallback.t = "str" THEN [exc |-> FALSE, s |-> Upper(fallback.s)]
        ELSE [exc |-> TRUE, s |-> <<>>])

\* re.search(rf"\b{word}\b", s)
HasWord(s, word) ==
    \E j \in 1..Len(s) : MatchAt(s, j, word) /\ \A e \in {j, j + Len(word)} : WordBoundary(s, e)

\* The if / elif chain of handle_login_credentials, in its order: the field
\* of the credentials a branch uses, the substrings and the words (\b...\b)
\* that select it
TargetClasses == <<
    [class |-> "usernames", parts |-> {<<"u", "s", "e", "r", "n", "a", "m", "e">>}, words |-> {<<"u", "s", "e", "r">>}],
    [class |-> "emails", parts |-> {<<"m", "a", "i", "l">>, <<"e", "m", "a", "i", "l">>}, words |-> {}],
    [class |-> "phones", parts |-> {<<"p", "h", "o", "n", "e">>, <<"n", "u", "m", "b", "e", "r">>}, words |-> {}],
    [class |-> "password", parts |-> {<<"p", "a", "s", "s", "w", "o", "r", "d">>}, words |-> {<<"p", "a", "s", "s">>, <<"p", "w", "d">>}] >>

\* the branch taken for the lower-cased target, "other" when none is
TargetClass(target) ==
    Let({k \in 1..Len(TargetClasses) :
            \/ \E p \in TargetClasses[k].parts : Contains(target, p)
            \/ \E w \in TargetClasses[k].words : HasWord(target, w)},
        LAMBDA hits : IF hits = {} THEN "other" ELSE TargetClasses[Min(hits)].class)

\* the n-th answer typed at the getpass prompt, stripped
Answer(typed, n) == IF n <= Len(typed) THEN Strip(typed[n]) ELSE <<>>

Raised(st) == [st EXCEPT !.exc = TRUE]

\* the username, email and phone branches: found are the values the
\* instruction gave for the branch
IdentifierStep(step, st, found, current_value) ==
    Let(IF found # <<>> THEN JStr(found[1]) ELSE current_value, LAMBDA value_to_use :
        [step |-> IF Truthy(value_to_use) THEN DictSet(step, <<"v", "a", "l", "u", "e">>, value_to_use) ELSE step,
         st |-> st])

\* the password branch for the key env_key; target and task_name are kept
\* in the log of the store_in_env calls
PasswordStep(step, st, creds, typed, current_value, env_key, target, task_name) ==
    IF ~Truthy(creds.password) /\ Truthy(current_value) /\ current_value.t # "str"
    THEN [step |-> step, st |-> Raised(st)]
    ELSE Let(Truthy(current_value) /\ ~IsPlaceholder(current_value.s), LAMBDA literal :
         Let(IF ~Truthy(creds.password) /\ ~literal THEN st.asked + 1 ELSE st.asked, LAMBDA asked :
         Let(IF Truthy(creds.password) THEN creds.password.s
             ELSE IF literal THEN current_value.s
             ELSE Answer(typed, asked),
             LAMBDA real_value :
                 IF real_value = <<>> THEN [step |-> step, st |-> [st EXCEPT !.asked = asked]]
                 ELSE Let(store_in_env([file |-> st.file, environ |-> st.environ], env_key, real_value),
                          LAMBDA stored :
                              [step |-> IF stored.exc THEN step
                                        ELSE DictSet(step, <<"v", "a", "l", "u", "e">>, JStr(Placeholder(env_key))),
                               st |-> [file |-> stored.file, environ |-> stored.environ,
                                       log |-> Append(st.log, [key |-> env_key, value |-> real_value,
                                                               exc |-> stored.exc, target |-> target,
                                                               task |-> task_name]),
                                       asked |-> asked,
                                       exc |-> stored.exc]]))))

\* One iteration of the loop of handle_login_credentials on step, in the
\* state st = [file, environ, log, asked, exc]: log lists the store_in_env
\* calls made, asked counts the getpass prompts.  Gives the step and the
\* state after the iteration.
HandleStep(step, st, creds, task_name, typed) ==
    IF step.t # "obj" THEN [step |-> step, st |-> Raised(st)]
    ELSE IF Get(step, <<"a", "c", "t", "i", "o", "n">>, JNull) # JStr(<<"t", "y", "p", "e">>) THEN [step |-> step, st |-> st]
    ELSE Let(Get(step, <<"t", "a", "r", "g", "e", "t">>, JNull), LAMBDA tv :
         IF Truthy(tv) /\ tv.t # "str" THEN [step |-> step, st |-> Raised(st)]
         ELSE Let(IF Truthy(tv) THEN Lower(tv.s) ELSE <<>>, LAMBDA target :
              Let(detect_service_from_text(target, task_name), LAMBDA service :
              Let(TargetClass(target), LAMBDA class :
              Let(Get(step, <<"v", "a", "l", "u", "e">>, JStr(<<>>)), LAMBDA current_value :
                  IF service.exc THEN [step |-> step, st |-> Raised(st)]
                  ELSE IF class = "other" THEN [step |-> step, st |-> st]
                  ELSE IF class = "password"
                       THEN PasswordStep(step, st, creds, typed, current_value,
                                         <<"P", "A", "S", "S", "W", "O", "R", "D", "_">> \o service.s, tv.s, task_name)
                  ELSE IdentifierStep(step, st, creds[class], current_value))))))

\* the loop `for step in steps` from item i on; done holds the items
\* already handled, and the loop stops where an iteration raises
RECURSIVE HandleSteps(_, _, _, _, _, _, _)
HandleSteps(items, i, done, st, creds, task_name, typed) ==
    IF i > Len(items) \/ st.exc THEN [items |-> done \o SubSeq(items, i, Len(items)), st |-> st]
    ELSE Let(HandleStep(items[i], st, creds, task_name, typed), LAMBDA r :
             HandleSteps(items, i + 1, Append(done, r.step), r.st, creds, task_name, typed))

\* iterating over a value that is no list: a non-empty str or dict yields
\* str items, on which step.get raises; a number, bool or None is not iterable
IterationRaises(v) == v.t \in {"num", "bool", "null"} \/ (v.t \in {"str", "obj"} /\ Truthy(v))

\* handle_login_credentials(plan_json, instruction) in the world w = [file,
\* environ], with typed the answers given at the getpass prompts
handle_login_credentials(plan_json, instruction, w, typed) ==
    Let([file |-> w.file, environ |-> w.environ, log |-> <<>>, asked |-> 0, exc |-> FALSE], LAMBDA st0 :
    Let(Get(plan_json, <<"s", "t", "e", "p", "s">>, JArr(<<>>)), LAMBDA steps :
        IF steps.t # "arr"
        THEN [plan |-> plan_json, st |-> IF IterationRaises(steps) THEN Raised(st0) ELSE st0]
        ELSE Let(HandleSteps(Items(steps), 1, <<>>, st0,
                             extract_credentials_from_instruction(instruction),
                             Get(plan_json, <<"t", "a", "s", "k">>, JStr(<<"G", "E", "N", "E", "R", "A", "L">>)), typed),
                 LAMBDA r :
                     [plan |-> IF HasKey(plan_json, <<"s", "t", "e", "p", "s">>)
                               THEN DictSet(plan_json, <<"s", "t", "e", "p", "s">>, JArr(r.items)) ELSE plan_json,
                      st |-> r.st])))
\* str(i) for a natural number i
RECURSIVE IntToStr(_)
IntToStr(i) == IF i < 10 THEN <<Digits[i + 1]>> ELSE IntToStr(i \div 10) \o <<Digits[(i % 10) + 1]>>

\* str.capitalize()
Capitalize(s) == [i \in 1..Len(s) |-> IF i = 1 THEN UpperChar(s[i]) ELSE LowerChar(s[i])]

\* str(v) as an f-string formats a value; a str inside a list or dict is
\* shown between single quotes (the escapes of repr are not modelled)
RECURSIVE PyStr(_, _)
PyStr(v, nested) ==
    CASE v.t = "str" -> IF nested THEN <<"'">> \o v.s \o <<"'">> ELSE v.s
      [] v.t = "num" -> v.s
      [] v.t = "bool" -> IF v.s = <<"t", "r", "u", "e">> THEN <<"T", "r", "u", "e">> ELSE <<"F", "a", "l", "s", "e">>
      [] v.t = "null" -> <<"N", "o", "n", "e">>
      [] v.t = "arr" -> <<"[">> \o JoinWith([i \in 1..Len(v.kv) |-> PyStr(v.kv[i][2], TRUE)], <<",", " ">>) \o <<"]">>
      [] v.t = "obj" -> <<"{">> \o JoinWith([i \in 1..Len(v.kv) |->
                            <<"'">> \o v.kv[i][1] \o <<"'", ":", " ">> \o PyStr(v.kv[i][2], TRUE)], <<",", " ">>) \o <<"}">>

Mask == <<"*", "*", "*", "*", "*", "*", "*", "*">>

NoStepsText == <<"WARNING_SIGN", "VARIATION_SELECTOR", " ", "N", "o", " ", "s", "t", "e", "p", "s", " ", "f", "o", "u", "n", "d", " ", "i", "n", " ", "t", "h", "e", " ", "t", "a", "s", "k", " ", "p", "l", "a", "n", ".">>

\* a variant of DisplayValue that tests the target as written
\* ("password" in target in place of "password" in target.lower())
DisplayValueCaseSensitive(target, value, env) ==
    IF value.t = "str" /\ Contains(target.s, <<"p", "a", "s", "s", "w", "o", "r", "d">>) THEN JStr(Mask)
    ELSE IF value.t = "str" THEN JStr(resolve_secret(value.s, env))
    ELSE value

\* the value json_to_stepwise_text shows for a step: the mask for a str
\* value under a target that holds "password", else resolve_secret(value)
DisplayValue(target, value, env) ==
    IF value.t = "str" /\ Contains(Lower(target.s), <<"p", "a", "s", "s", "w", "o", "r", "d">>) THEN JStr(Mask)
    ELSE IF value.t = "str" THEN JStr(resolve_secret(value.s, env))
    ELSE value

\* the body of the loop of json_to_stepwise_text raises: step is no dict,
\* target.lower() on a non-str target, action.capitalize() on a non-str action
StepLineRaises(step) ==
    \/ step.t # "obj"
    \/ Get(step, <<"v", "a", "l", "u", "e">>, JNull).t = "str" /\ Get(step, <<"t", "a", "r", "g", "e", "t">>, JStr(<<"<", "t", "a", "r", "g", "e", "t", ">">>)).t # "str"
    \/ Get(step, <<"a", "c", "t", "i", "o", "n">>, JStr(<<"<", "a", "c", "t", "i", "o", "n", ">">>)).t # "str"

\* the line of step number i
StepLine(i, step, env) ==
    Let(Get(step, <<"t", "a", "r", "g", "e", "t">>, JStr(<<"<", "t", "a", "r", "g", "e", "t", ">">>)), LAMBDA target :
    Let(DisplayValue(target, Get(step, <<"v", "a", "l", "u", "e">>, JNull), env), LAMBDA display_value :
        <<"S", "t", "e", "p", " ">> \o IntToStr(i) \o <<":", " ">>
        \o Capitalize(Get(step, <<"a", "c", "t", "i", "o", "n">>, JStr(<<"<", "a", "c", "t", "i", "o", "n", ">">>)).s) \o <<" ", "-", ">", " ">> \o PyStr(target, FALSE)
        \o (IF Truthy(display_value) THEN <<" ", "|", " ", "V", "a", "l", "u", "e", ":", " ">> \o PyStr(display_value, FALSE) ELSE <<>>)))

\* json_to_stepwise_text(plan_json) under the environment env; exc tells
\* that it raised
json_to_stepwise_text(plan_json, env) ==
    Let(Get(plan_json, <<"s", "t", "e", "p", "s">>, JArr(<<>>)), LAMBDA steps :
    Let(Items(steps), LAMBDA items :
        IF ~Truthy(steps) THEN [exc |-> FALSE, text |-> NoStepsText]
        ELSE IF steps.t # "arr" \/ \E i \in 1..Len(items) : StepLineRaises(items[i])
             THEN [exc |-> TRUE, text |-> <<>>]
        ELSE [exc |-> FALSE,
              text |-> JoinWith([i \in 1..Len(items) |-> StepLine(i, items[i], env)], <<"\n">>)]))

----------------------------------------------------------------------------
(* Task management: generate_task_plan, modify_task_plan, /execute-json    *)

\* open(path, "w").write(text) on the files of one kind
WriteFile(files, name, text) ==
    [n \in (DOMAIN files) \cup {name} |-> IF n = name THEN text ELSE files[n]]

\* json.dump(plan, f, indent=2) to tasks/<task_name>.json, then
\* json_to_stepwise_text(plan) and save_stepwise_text: the end of
\* generate_task_plan and of modify_task_plan.  st is the state
\* handle_login_credentials left, W = [file, environ, tasks, steps] the world.
SavePlan(plan, st, task_name, W) ==
    Let(json_to_stepwise_text(plan, st.environ), LAMBDA text :
        [exc |-> text.exc,
         result |-> IF text.exc THEN JNull ELSE plan,
         file |-> st.file,
         environ |-> st.environ,
         tasks |-> WriteFile(W.tasks, task_name, json_dump_indent2(plan)),
         steps |-> IF text.exc THEN W.steps ELSE WriteFile(W.steps, task_name, text.text),
         log |-> st.log, generated |-> TRUE])

\* an exception leaves the task store alone; the writes of store_in_env stay
Failed(st, W) ==
    [exc |-> TRUE, result |-> JNull, file |-> st.file, environ |-> st.environ,
     tasks |-> W.tasks, steps |-> W.steps, log |-> st.log, generated |-> TRUE]

\* task_name = existing_task_name or plan.get("task", "unnamed_task")
\*     .replace(" ", "_").lower(); plan["task"] = task_name
\* for the plan and state r that handle_login_credentials left; stage_exc
\* tells that the exception came out of handle_login_credentials
NameTask(r, existing_task_name) ==
    Let(Get(r.plan, <<"t", "a", "s", "k">>, JStr(<<"u", "n", "n", "a", "m", "e", "d", "_", "t", "a", "s", "k">>)), LAMBDA task :
        IF r.st.exc \/ (~Truthy(existing_task_name) /\ task.t # "str")
        THEN [exc |-> TRUE, plan |-> r.plan, st |-> Raised(r.st), task_name |-> <<>>,
              stage_exc |-> r.st.exc]
        ELSE Let(IF Truthy(existing_task_name) THEN existing_task_name.s
                 ELSE Lower(ReplaceSpaces(task.s)),
                 LAMBDA task_name :
                     [exc |-> FALSE, plan |-> DictSet(r.plan, <<"t", "a", "s", "k">>, JStr(task_name)), st |-> r.st,
                      task_name |-> task_name, stage_exc |-> FALSE]))

\* The sanitizer stages of generate_task_plan on a parsed plan: remove_urls,
\* replace_urls_with_service, handle_login_credentials, then the task name
\* (existing_task_name, JNull for None, or the slug of the plan's own) and
\* plan["task"] = task_name.  w = [file, environ].
SanitizerPipeline(plan, instruction, existing_task_name, w, typed) ==
    NameTask(handle_login_credentials(replace_urls_with_service(remove_urls(plan)), instruction, w, typed),
             existing_task_name)

\* generate_task_plan(instruction, existing_task_name): raw is the text
\* ai_generate returns, typed the answers at the getpass prompts
generate_task_plan(instruction, existing_task_name, raw, typed, W) ==
    Let(SanitizerPipeline(clean_json_response(raw), instruction, existing_task_name,
                          [file |-> W.file, environ |-> W.environ], typed),
        LAMBDA p : IF p.exc THEN Failed(p.st, W) ELSE SavePlan(p.plan, p.st, p.task_name, W))

\* modify_task_plan(task_name, modification_instruction); the result is
\* JNull where it returns None because the task has no file
modify_task_plan(task_name, modification_instruction, raw, typed, W) ==
    IF task_name \notin DOMAIN W.tasks
    THEN [exc |-> FALSE, result |-> JNull, file |-> W.file, environ |-> W.environ,
          tasks |-> W.tasks, steps |-> W.steps, log |-> <<>>, generated |-> FALSE]
    ELSE Let(handle_login_credentials(replace_urls_with_service(remove_urls(clean_json_response(raw))),
                                      modification_instruction,
                                      [file |-> W.file, environ |-> W.environ], typed),
             LAMBDA r : IF r.st.exc THEN Failed(r.st, W)
                        ELSE SavePlan(DictSet(r.plan, <<"t", "a", "s", "k">>, JStr(task_name)), r.st, task_name, W))

\* POST /execute-json with the body {"task": task_name, "steps": steps}:
\* the plan is written as received
execute_json(task_name, steps, W) ==
    Let(JObj(<<<<<<"t", "a", "s", "k">>, task_name>>, <<<<"s", "t", "e", "p", "s">>, steps>>>>), LAMBDA plan :
    Let(json_to_stepwise_text(plan, W.environ), LAMBDA text :
    Let(PyStr(task_name, FALSE), LAMBDA name :
        [exc |-> Truthy(task_name) /\ Truthy(steps) /\ text.exc,
         result |-> IF ~Truthy(task_name) \/ ~Truthy(steps) THEN JStr(<<"e", "r", "r", "o", "r">>)
                    ELSE IF text.exc THEN JNull ELSE JStr(<<"s", "u", "c", "c", "e", "s", "s">>),
         file |-> W.file,
         environ |-> W.environ,
         tasks |-> IF ~Truthy(task_name) \/ ~Truthy(steps) THEN W.tasks
                   ELSE WriteFile(W.tasks, name, json_dump_indent2(plan)),
         steps |-> IF ~Truthy(task_name) \/ ~Truthy(steps) \/ text.exc THEN W.steps
                   ELSE WriteFile(W.steps, name, text.text),
         log |-> <<>>, generated |-> FALSE])))

\* a call that only reads: the world stays as it is
ReadOnly(result, exc, W) ==
    [exc |-> exc, result |-> result, file |-> W.file, environ |-> W.environ,
     tasks |-> W.tasks, steps |-> W.steps, log |-> <<>>, generated |-> FALSE]

\* {"status": "error", "message": "task not found"}
TaskNotFound ==
    JObj(<<<<<<"s", "t", "a", "t", "u", "s">>, JStr(<<"e", "r", "r", "o", "r">>)>>, <<<<"m", "e", "s", "s", "a", "g", "e">>, JStr(<<"t", "a", "s", "k", " ", "n", "o", "t", " ", "f", "o", "u", "n", "d">>)>>>>)

\* len(v) for a JSON value; -1 where len raises (a number, bool or None)
PyLen(v) ==
    CASE v.t = "str" -> Len(v.s)
      [] v.t \in {"arr", "obj"} -> Len(v.kv)
      [] OTHER -> -1

\* execute_task(task_name): the plan is read with json.load, its steps counted
execute_task(task_name, W) ==
    IF task_name \notin DOMAIN W.tasks THEN ReadOnly(TaskNotFound, FALSE, W)
    ELSE Let(json_loads(W.tasks[task_name]), LAMBDA loaded :
         Let(IF loaded.ok /\ loaded.val.t = "obj"
             THEN PyLen(Get(loaded.val, <<"s", "t", "e", "p", "s">>, JArr(<<>>))) ELSE -1, LAMBDA n :
             IF n < 0 THEN ReadOnly(JNull, TRUE, W)
             ELSE ReadOnly(JObj(<<<<<<"s", "t", "a", "t", "u", "s">>, JStr(<<"s", "u", "c", "c", "e", "s", "s">>)>>, <<<<"t", "a", "s", "k">>, JStr(task_name)>>,
                                  <<<<"s", "t", "e", "p", "s", "_", "c", "o", "u", "n", "t">>, JNum(IntToStr(n))>>>>), FALSE, W)))

\* GET /developer-task/{task_name}: the stored plan and its stepwise text
dev_task(task_name, W) ==
    IF task_name \notin DOMAIN W.tasks THEN ReadOnly(TaskNotFound, FALSE, W)
    ELSE Let(json_loads(W.tasks[task_name]), LAMBDA loaded :
             IF ~loaded.ok THEN ReadOnly(JNull, TRUE, W)
             ELSE ReadOnly(JObj(<<<<<<"p", "l", "a", "n">>, loaded.val>>,
                                  <<<<"r", "e", "a", "d", "a", "b", "l", "e", "_", "t", "e", "x", "t">>,
                                    JStr(IF task_name \in DOMAIN W.steps THEN W.steps[task_name] ELSE <<>>)>>>>),
                           FALSE, W))

----------------------------------------------------------------------------
(* Refined_backend.py: the plan generation of the script pipeline, which   *)
(* writes to the same tasks directory                                       *)

\* re.sub(r"(?:json)?", "", raw_text): the empty matches change nothing,
\* every occurrence of json is removed
RECURSIVE StripJsonWords(_)
StripJsonWords(text) ==
    Let(Find(text, <<"j", "s", "o", "n">>, 1), LAMBDA f :
        IF f = 0 THEN text
        ELSE SubSeq(text, 1, f - 1) \o StripJsonWords(From(text, f + 4)))

\* clean_json_response(raw_text) of Refined_backend.py
Refined_clean_json_response(raw_text) ==
    Let(BraceMatch(Strip(StripJsonWords(raw_text))), LAMBDA text_clean :
        IF text_clean = <<>> THEN RawTextObject(raw_text)
        ELSE Let(json_loads(text_clean), LAMBDA loaded :
                 IF loaded.ok THEN loaded.val ELSE RawTextObject(text_clean)))

\* generate_task_plan(instruction) of Refined_backend.py for the generated
\* text raw: the plan is written as parsed under the slug of its task field,
\* and the slug is returned.  (The prompt file tasks/<slug>_prompt.txt it
\* also writes is no plan document.)
Refined_generate_task_plan(raw, W) ==
    Let(Refined_clean_json_response(raw), LAMBDA plan :
    Let(Get(plan, <<"t", "a", "s", "k">>, JStr(<<"u", "n", "n", "a", "m", "e", "d", "_", "t", "a", "s", "k">>)), LAMBDA task :
        IF task.t # "str"
        THEN [exc |-> TRUE, result |-> JNull, file |-> W.file, environ |-> W.environ,
              tasks |-> W.tasks, steps |-> W.steps, log |-> <<>>, generated |-> TRUE]
        ELSE Let(Lower(ReplaceSpaces(task.s)), LAMBDA task_name :
                 [exc |-> FALSE, result |-> JStr(task_name), file |-> W.file, environ |-> W.environ,
                  tasks |-> WriteFile(W.tasks, task_name, json_dump_indent2(plan)),
                  steps |-> W.steps, log |-> <<>>, generated |-> TRUE])))
----------------------------------------------------------------------------
(* Secret store calls in isolation                                         *)

MaxCalls == 3

EnvKeys == {<<"K">>, <<"K", "2">>, <<"B">>, <<"K", "\n", "B">>, <<"K", "=", "B">>, <<>>}

EnvValues == {<<"v">>, <<"w">>, <<"a", "=", "b">>, <<"x", "\n", "B", "=", "y">>}

NoCall == [op |-> "none"]

\* the file format of the secret store: one KEY=VALUE line per entry, no
\* quoting, so a key is a usable environment name without a line break and
\* a value holds no line break
WellFormedKey(key) == key # <<>> /\ \A i \in 1..Len(key) : key[i] \notin {"=", "\n", "\r"}

WellFormedValue(value) == \A i \in 1..Len(value) : value[i] \notin {"\n", "\r"}

\* history after a call store_in_env(key, value) made for the step target
\* target of a plan whose task field is task (<<>> and JNull for a direct
\* call); exc tells whether the call raised
Record(h, key, value, exc, target, task) ==
    [keys |-> h.keys \cup {key},
     written |-> IF exc THEN h.written ELSE SetEnviron(h.written, key, value),
     lastKey |-> key,
     clean |-> h.clean /\ WellFormedKey(key) /\ WellFormedValue(value),
     chosen |-> IF exc THEN h.chosen ELSE h.chosen \cup {[target |-> target, key |-> key, task |-> task]}]

\* history after the calls of log, in order
RECURSIVE RecordAll(_, _)
RecordAll(h, log) ==
    IF log = <<>> THEN h
    ELSE RecordAll(Record(h, log[1].key, log[1].value, log[1].exc, log[1].target, log[1].task), Tail(log))

InitCommon ==
    /\ envFile = <<>>
    /\ environ = <<>>
    /\ taskFiles = <<>>
    /\ stepFiles = <<>>
    /\ ret = NoCall
    /\ hist = [keys |-> {}, written |-> <<>>, lastKey |-> <<>>, clean |-> TRUE, chosen |-> {}]
    /\ nOps = 0

EnvInit == InitCommon /\ input = <<>>

\* a direct call store_in_env(key, value)
EnvStore ==
    \E key \in EnvKeys, value \in EnvValues :
        LET r == store_in_env([file |-> envFile, environ |-> environ], key, value)
        IN /\ nOps < MaxCalls
           /\ nOps' = nOps + 1
           /\ envFile' = r.file
           /\ environ' = r.environ
           /\ hist' = Record(hist, key, value, r.exc, <<>>, JNull)
           /\ ret' = [op |-> "store_in_env", key |-> key, value |-> value, exc |-> r.exc,
                      fileBefore |-> envFile, known |-> key \in hist.keys]
           /\ UNCHANGED <<taskFiles, stepFiles, input>>

\* a direct call resolve_secret("${key}")
EnvResolve ==
    \E key \in EnvKeys :
        /\ nOps < MaxCalls
        /\ nOps' = nOps + 1
        /\ ret' = [op |-> "resolve_secret", key |-> key,
                   result |-> resolve_secret(Placeholder(key), environ)]
        /\ UNCHANGED <<envFile, environ, taskFiles, stepFiles, hist, input>>

EnvNext == EnvStore \/ EnvResolve

SpecEnv == EnvInit /\ [][EnvNext]_vars


----------------------------------------------------------------------------
(* The credential extractor as a pure function                             *)

\* what an instruction says first: a usable password, a marker followed by
\* a filler word, or no password at all
FirstPhrases == {<<"p", "a", "s", "s", "w", "o", "r", "d", " ", "S", "e", "c", "r", "e", "t", "1", "2", "3">>, <<"p", "a", "s", "s", " ", "i", "s", " ", "f", "i", "r", "s", "t", "1">>, <<"p", "a", "s", "s", "w", "o", "r", "d", " ", "i", "s">>, <<"u", "s", "e", "r", "n", "a", "m", "e", " ", "b", "o", "b">>}

Joiners == {<<" ", "a", "n", "d", " ">>, <<",", " ">>}

\* what it says last
LastPhrases == {<<"p", "a", "s", "s", "w", "o", "r", "d", " ", "x", "y", "z">>, <<"p", "a", "s", "s", "w", "o", "r", "d", " ", "i", "s", " ", "A", "b", "c", "9">>, <<"p", "a", "s", "s", ":", " ", "q", "1">>, <<"p", "a", "s", "s", "w", "o", "r", "d", " ", "S", "e", "c", "r", "e", "t", "9", ".">>,
                <<"p", "a", "s", "s", "w", "o", "r", "d", " ", "i", "s">>, <<"P", "A", "S", "S", "W", "O", "R", "D", " ", "T", "o">>, <<"p", "a", "s", "s", "w", "o", "r", "d", " ", "w", "a", "s">>, <<"p", "a", "s", "s", " ", " ">>,
                <<"p", "a", "s", "s", "w", "o", "r", "d", " ", "S", "a", "n", "d", "y", "1">>, <<"p", "a", "s", "s", "w", "o", "r", "d", " ", "i", "s", "a", "b", "e", "l", "7">>}

ExtractInit ==
    /\ InitCommon
    /\ input \in {[instruction |-> <<"l", "o", "g", "i", "n", " ", "w", "i", "t", "h", " ">> \o f \o j \o l] :
                     f \in FirstPhrases, j \in Joiners, l \in LastPhrases}

\* extract_credentials_from_instruction(instruction); matches are the
\* groups re.findall gives for pwd_pattern
Extract ==
    /\ ret.op = "none"
    /\ ret' = [op |-> "extract_credentials_from_instruction",
               matches |-> FindAll("password", input.instruction, 1),
               creds |-> extract_credentials_from_instruction(input.instruction)]
    /\ UNCHANGED <<envFile, environ, taskFiles, stepFiles, hist, input, nOps>>

ExtractNext == Extract

SpecExtract == ExtractInit /\ [][ExtractNext]_vars
----------------------------------------------------------------------------
(* The response normaliser as a pure function                              *)

NormPrefixes == {<<>>, <<"S", "u", "r", "e", "!", " ", "H", "e", "r", "e", "'", "s", " ", "y", "o", "u", "r", " ", "p", "l", "a", "n", ":", " ">>, <<"BACKTICK", "BACKTICK", "BACKTICK", "j", "s", "o", "n", "\n">>, <<"H", "e", "r", "e", " ">>, <<" ", " ", "BACKTICK", "BACKTICK", "BACKTICK">>}

NormBodies == {<<"n", "o", "t", " ", "j", "s", "o", "n">>, <<"{", "n", "o", "t", " ", "j", "s", "o", "n", "}">>, <<"{", "\"", "t", "a", "s", "k", "\"", ":", " ", "\"", "a", " ", "b", "\"", ",", " ", "\"", "s", "t", "e", "p", "s", "\"", ":", " ", "[", "]", "}">>, <<"{">>,
               <<"{", "\"", "r", "a", "w", "_", "t", "e", "x", "t", "\"", ":", " ", "\"", "x", "\"", "}">>, <<"[", "1", ",", " ", "2", "]">>}

NormSuffixes == {<<>>, <<"\n", "BACKTICK", "BACKTICK", "BACKTICK">>, <<" ", "b", "y", "e">>, <<" ", "}">>}

NormInit ==
    /\ InitCommon
    /\ input \in {[raw |-> p \o b \o s] : p \in NormPrefixes, b \in NormBodies, s \in NormSuffixes}

\* the normalisation of raw_text ends in the fallback: no {...} candidate,
\* or a candidate json.loads rejects
NormalizationFails(raw_text) ==
    Let(BraceMatch(Strip(StripFences(raw_text))),
        LAMBDA candidate : candidate = <<>> \/ ~json_loads(candidate).ok)

\* clean_json_response(raw) on the generated text
Normalize ==
    /\ ret.op = "none"
    /\ ret' = [op |-> "clean_json_response", raw |-> input.raw,
               failed |-> NormalizationFails(input.raw),
               result |-> clean_json_response(input.raw)]
    /\ UNCHANGED <<envFile, environ, taskFiles, stepFiles, hist, input, nOps>>

\* clean_json_response on the JSON serialization of a fallback object
Renormalize ==
    /\ ret.op = "clean_json_response"
    /\ ret.failed
    /\ \E text \in {json_dumps(ret.result)} :
           ret' = [op |-> "renormalize", raw |-> text, first |-> ret.result,
                   result |-> clean_json_response(text)]
    /\ UNCHANGED <<envFile, environ, taskFiles, stepFiles, hist, input, nOps>>

NormNext == Normalize \/ Renormalize

SpecNorm == NormInit /\ [][NormNext]_vars

----------------------------------------------------------------------------
(* Inputs of the planner                                                   *)

LoginInstruction == <<"L", "o", "g", "i", "n", " ", "t", "o", " ", "i", "n", "s", "t", "a", "g", "r", "a", "m", " ", "w", "i", "t", "h", " ", "u", "s", "e", "r", "n", "a", "m", "e", " ", "b", "o", "b", " ", "a", "n", "d", " ", "p", "a", "s", "s", "w", "o", "r", "d", " ", "S", "e", "c", "r", "e", "t", "1", "2", "3">>

Instructions == {LoginInstruction, <<"o", "p", "e", "n", " ", "t", "h", "e", " ", "s", "i", "t", "e">>}

\* texts the generation service returns
PlanInstagramLogin ==
    <<"{", "\"", "t", "a", "s", "k", "\"", ":", " ", "\"", "i", "n", "s", "t", "a", "g", "r", "a", "m", " ", "l", "o", "g", "i", "n", "\"", ",", " ", "\"", "s", "t", "e", "p", "s", "\"", ":", " ", "[", "{", "\"", "a", "c", "t", "i", "o", "n", "\"", ":", " ", "\"", "g", "o", "t", "o", "\"", ",", " ", "\"", "t", "a", "r", "g", "e", "t", "\"", ":", " ", "\"", "h", "t", "t", "p", "s", ":", "/", "/", "w", "w", "w", ".", "i", "n", "s", "t", "a", "g", "r", "a", "m", ".", "c", "o", "m", "/", "a", "c", "c", "o", "u", "n", "t", "s", "\"", "}", ",", " ", "{", "\"", "a", "c", "t", "i", "o", "n", "\"", ":", " ", "\"", "t", "y", "p", "e", "\"", ",", " ", "\"", "t", "a", "r", "g", "e", "t", "\"", ":", " ", "\"", "u", "s", "e", "r", "n", "a", "m", "e", "\"", ",", " ", "\"", "v", "a", "l", "u", "e", "\"", ":", " ", "\"", "$", "{", "U", "S", "E", "R", "N", "A", "M", "E", "}", "\"", "}", ",", " ", "{", "\"", "a", "c", "t", "i", "o", "n", "\"", ":", " ", "\"", "t", "y", "p", "e", "\"", ",", " ", "\"", "t", "a", "r", "g", "e", "t", "\"", ":", " ", "\"", "p", "a", "s", "s", "w", "o", "r", "d", "\"", ",", " ", "\"", "v", "a", "l", "u", "e", "\"", ":", " ", "\"", "$", "{", "P", "A", "S", "S", "W", "O", "R", "D", "}", "\"", "}", "]", "}">>

PlanGmailPassword ==
    <<"{", "\"", "t", "a", "s", "k", "\"", ":", " ", "\"", "L", "o", "g", "i", "n", " ", "T", "a", "s", "k", "\"", ",", " ", "\"", "s", "t", "e", "p", "s", "\"", ":", " ", "[", "{", "\"", "a", "c", "t", "i", "o", "n", "\"", ":", " ", "\"", "t", "y", "p", "e", "\"", ",", " ", "\"", "t", "a", "r", "g", "e", "t", "\"", ":", " ", "\"", "G", "m", "a", "i", "l", " ", "p", "a", "s", "s", "w", "o", "r", "d", "\"", ",", " ", "\"", "v", "a", "l", "u", "e", "\"", ":", " ", "\"", "h", "u", "n", "t", "e", "r", "2", "\"", "}", "]", "}">>

PlanInstagramFenced ==
    <<"BACKTICK", "BACKTICK", "BACKTICK", "j", "s", "o", "n", "\n", "{", "\"", "t", "a", "s", "k", "\"", ":", " ", "\"", "i", "n", "s", "t", "a", "g", "r", "a", "m", "\"", ",", " ", "\"", "s", "t", "e", "p", "s", "\"", ":", " ", "[", "{", "\"", "a", "c", "t", "i", "o", "n", "\"", ":", " ", "\"", "t", "y", "p", "e", "\"", ",", " ", "\"", "t", "a", "r", "g", "e", "t", "\"", ":", " ", "\"", "p", "a", "s", "s", "w", "o", "r", "d", "\"", ",", " ", "\"", "v", "a", "l", "u", "e", "\"", ":", " ", "\"", "\"", "}", "]", "}", "\n", "BACKTICK", "BACKTICK", "BACKTICK">>

PlanNotJson == <<"S", "u", "r", "e", "!", " ", "H", "e", "r", "e", "'", "s", " ", "y", "o", "u", "r", " ", "p", "l", "a", "n", ":", " ", "n", "o", "t", " ", "j", "s", "o", "n">>

PlanServiceInTarget ==
    <<"{", "\"", "t", "a", "s", "k", "\"", ":", " ", "\"", "t", "\"", ",", " ", "\"", "s", "t", "e", "p", "s", "\"", ":", " ", "[", "{", "\"", "a", "c", "t", "i", "o", "n", "\"", ":", " ", "\"", "t", "y", "p", "e", "\"", ",", " ", "\"", "t", "a", "r", "g", "e", "t", "\"", ":", " ", "\"", "I", "n", "s", "t", "a", "g", "r", "a", "m", " ", "P", "a", "s", "s", "w", "o", "r", "d", "\"", ",", " ", "\"", "v", "a", "l", "u", "e", "\"", ":", " ", "\"", "h", "u", "n", "t", "e", "r", "2", "\"", "}", "]", "}">>

PlanServiceInTarget2 ==
    <<"{", "\"", "t", "a", "s", "k", "\"", ":", " ", "\"", "L", "o", "g", "i", "n", " ", "T", "a", "s", "k", "\"", ",", " ", "\"", "s", "t", "e", "p", "s", "\"", ":", " ", "[", "{", "\"", "a", "c", "t", "i", "o", "n", "\"", ":", " ", "\"", "c", "l", "i", "c", "k", "\"", ",", " ", "\"", "t", "a", "r", "g", "e", "t", "\"", ":", " ", "\"", "L", "o", "g", "i", "n", "\"", "}", ",", " ", "{", "\"", "a", "c", "t", "i", "o", "n", "\"", ":", " ", "\"", "t", "y", "p", "e", "\"", ",", " ", "\"", "t", "a", "r", "g", "e", "t", "\"", ":", " ", "\"", "I", "n", "s", "t", "a", "g", "r", "a", "m", " ", "P", "a", "s", "s", "w", "o", "r", "d", "\"", ",", " ", "\"", "v", "a", "l", "u", "e", "\"", ":", " ", "\"", "$", "{", "P", "A", "S", "S", "W", "O", "R", "D", "}", "\"", "}", "]", "}">>

\* a plan without a task name
PlanNullTask ==
    <<"{", "\"", "t", "a", "s", "k", "\"", ":", " ", "n", "u", "l", "l", ",", " ", "\"", "s", "t", "e", "p", "s", "\"", ":", " ", "[", "{", "\"", "a", "c", "t", "i", "o", "n", "\"", ":", " ", "\"", "t", "y", "p", "e", "\"", ",", " ", "\"", "t", "a", "r", "g", "e", "t", "\"", ":", " ", "\"", "p", "a", "s", "s", "w", "o", "r", "d", "\"", ",", " ", "\"", "v", "a", "l", "u", "e", "\"", ":", " ", "\"", "x", "\"", "}", "]", "}">>

GeneratedTexts == {PlanInstagramLogin, PlanGmailPassword, PlanInstagramFenced, PlanNotJson,
                   PlanServiceInTarget, PlanServiceInTarget2}

\* a request without credentials, and the plan generated for it
FlightInstruction == <<"B", "o", "o", "k", " ", "a", " ", "f", "l", "i", "g", "h", "t", " ", "f", "r", "o", "m", " ", "D", "e", "l", "h", "i", " ", "t", "o", " ", "M", "u", "m", "b", "a", "i", " ", "o", "n", " ", "1", "2", " ", "M", "a", "r", "c", "h", " ", "2", "0", "2", "5">>

PlanFlight ==
    <<"{", "\"", "t", "a", "s", "k", "\"", ":", " ", "\"", "B", "o", "o", "k", " ", "F", "l", "i", "g", "h", "t", "\"", ",", " ", "\"", "s", "t", "e", "p", "s", "\"", ":", " ", "[", "{", "\"", "a", "c", "t", "i", "o", "n", "\"", ":", " ", "\"", "t", "y", "p", "e", "\"", ",", " ", "\"", "t", "a", "r", "g", "e", "t", "\"", ":", " ", "\"", "f", "r", "o", "m", "\"", ",", " ", "\"", "v", "a", "l", "u", "e", "\"", ":", " ", "\"", "D", "e", "l", "h", "i", "\"", "}", ",", " ", "{", "\"", "a", "c", "t", "i", "o", "n", "\"", ":", " ", "\"", "c", "l", "i", "c", "k", "\"", ",", " ", "\"", "t", "a", "r", "g", "e", "t", "\"", ":", " ", "\"", "s", "e", "a", "r", "c", "h", " ", "f", "l", "i", "g", "h", "t", "s", "\"", "}", "]", "}">>

\* the texts the generation service returns for an instruction
TextsFor(instruction) == IF instruction = FlightInstruction THEN {PlanFlight} ELSE GeneratedTexts

\* what the user types at the one getpass prompt a plan of GeneratedTexts can cause
TypedAnswers == {<<<<"p", "w", "1">>>>, <<<<>>>>}

----------------------------------------------------------------------------
(* The sanitizer pipeline run once and then again on its own output        *)

\* the texts the stages are run on
PipeTexts == GeneratedTexts \cup {PlanNullTask}

\* an instruction whose user name is a URL
UrlUserInstruction == <<"L", "o", "g", "i", "n", " ", "a", "s", " ", "h", "t", "t", "p", "s", ":", "/", "/", "m", "e", ".", "e", "x", "a", "m", "p", "l", "e", "/", "b", "o", "b", " ", "w", "i", "t", "h", " ", "p", "a", "s", "s", "w", "o", "r", "d", " ", "S", "e", "c", "r", "e", "t", "1", "2", "3">>

PipeInstructions == Instructions \cup {UrlUserInstruction}

PipeInit ==
    /\ InitCommon
    /\ input \in {[raw |-> g, instruction |-> i, typed |-> t, typed2 |-> u] :
                     g \in PipeTexts, i \in PipeInstructions, t \in TypedAnswers, u \in TypedAnswers}

\* the stages on the plan clean_json_response returns
Sanitize ==
    \E parsed \in {clean_json_response(input.raw)} :
        \E p \in {SanitizerPipeline(parsed, input.instruction, JNull,
                                    [file |-> envFile, environ |-> environ], input.typed)} :
            /\ ret.op = "none"
            /\ ret' = [op |-> "sanitize", runs |-> 1, exc |-> p.exc, plan |-> p.plan, parsed |-> parsed,
                       stage_exc |-> p.stage_exc, asked |-> p.st.asked]
            /\ envFile' = p.st.file
            /\ environ' = p.st.environ
            /\ hist' = RecordAll(hist, p.st.log)
            /\ UNCHANGED <<taskFiles, stepFiles, input, nOps>>

\* the stages again, with the same instruction, on the plan of the first run
SanitizeAgain ==
    /\ ret.op = "sanitize" /\ ret.runs = 1 /\ ~ret.exc
    /\ \E p \in {SanitizerPipeline(ret.plan, input.instruction, JNull,
                                    [file |-> envFile, environ |-> environ], input.typed2)} :
           /\ ret' = [op |-> "sanitize", runs |-> 2, exc |-> p.exc, plan |-> p.plan, parsed |-> ret.plan,
                      stage_exc |-> p.stage_exc, asked |-> p.st.asked]
           /\ envFile' = p.st.file
           /\ environ' = p.st.environ
           /\ hist' = RecordAll(hist, p.st.log)
           /\ UNCHANGED <<taskFiles, stepFiles, input, nOps>>

PipeNext == Sanitize \/ SanitizeAgain

SpecPipe == PipeInit /\ [][PipeNext]_vars


----------------------------------------------------------------------------
(* The task manager: create, modify and direct edits of stored plans       *)

MaxOps == 2

World == [file |-> envFile, environ |-> environ, tasks |-> taskFiles, steps |-> stepFiles]

\* instructions given to modify_task_plan
ModifyInstructions == {<<"c", "h", "a", "n", "g", "e", " ", "t", "h", "e", " ", "p", "a", "s", "s", "w", "o", "r", "d", " ", "t", "o", " ", "N", "e", "w", "P", "a", "s", "s", "9">>}

\* bodies posted to /execute-json: the name of a generated task and a name
\* as a person writes it
ExecNames == {JStr(<<"i", "n", "s", "t", "a", "g", "r", "a", "m", "_", "l", "o", "g", "i", "n">>), JStr(<<"M", "y", " ", "T", "a", "s", "k">>)}

StepRawSecret ==
    JObj(<<<<<<"a", "c", "t", "i", "o", "n">>, JStr(<<"t", "y", "p", "e">>)>>, <<<<"t", "a", "r", "g", "e", "t">>, JStr(<<"P", "a", "s", "s", "w", "o", "r", "d">>)>>,
           <<<<"v", "a", "l", "u", "e">>, JStr(<<"h", "u", "n", "t", "e", "r", "2">>)>>>>)

StepPlaceholder ==
    JObj(<<<<<<"a", "c", "t", "i", "o", "n">>, JStr(<<"t", "y", "p", "e">>)>>, <<<<"t", "a", "r", "g", "e", "t">>, JStr(<<"p", "a", "s", "s", "w", "o", "r", "d">>)>>,
           <<<<"v", "a", "l", "u", "e">>, JStr(<<"$", "{", "P", "A", "S", "S", "W", "O", "R", "D", "_", "I", "N", "S", "T", "A", "G", "R", "A", "M", "}">>)>>>>)

StepClick == JObj(<<<<<<"a", "c", "t", "i", "o", "n">>, JStr(<<"c", "l", "i", "c", "k">>)>>, <<<<"t", "a", "r", "g", "e", "t">>, JStr(<<"L", "o", "g", "i", "n">>)>>>>)

ExecSteps == {JArr(<<StepClick, StepRawSecret>>), JArr(<<StepPlaceholder>>), JArr(<<>>)}

\* getpass prompts only when the instruction gives no password
AnswersFor(instruction) ==
    IF extract_credentials_from_instruction(instruction).password.t = "null" THEN TypedAnswers
    ELSE {<<>>}

Init == InitCommon /\ input = <<>>

\* the state after a call that gave r, and the record of the call
Applied(op, name, r) ==
    /\ nOps' = nOps + 1
    /\ envFile' = r.file
    /\ environ' = r.environ
    /\ taskFiles' = r.tasks
    /\ stepFiles' = r.steps
    /\ hist' = RecordAll(hist, r.log)
    /\ ret' = [op |-> op, name |-> name, exc |-> r.exc, result |-> r.result,
               generated |-> r.generated]
    /\ UNCHANGED input

\* generate_task_plan(instruction) as the /add-task handler and the CLI call it
GenerateTask ==
    \E instruction \in Instructions \cup {FlightInstruction} :
    \E typed \in AnswersFor(instruction), raw \in TextsFor(instruction) :
        /\ nOps < MaxOps
        /\ \E r \in {generate_task_plan(instruction, JNull, raw, typed, World)} :
               Applied("generate_task_plan", IF r.exc THEN <<>> ELSE Get(r.result, <<"t", "a", "s", "k">>, JNull).s, r)

\* modify_task_plan(task_name, instruction) on a stored task or a missing one;
\* the generation service answers with the stored document or another plan
ModifyTask ==
    \E task_name \in (DOMAIN taskFiles) \cup {<<"m", "i", "s", "s", "i", "n", "g">>}, instruction \in ModifyInstructions :
        \E raw \in {PlanGmailPassword} \cup {taskFiles[n] : n \in (DOMAIN taskFiles) \cap {task_name}} :
            /\ nOps < MaxOps
            /\ Applied("modify_task_plan", task_name,
                       modify_task_plan(task_name, instruction, raw, <<>>, World))

\* POST /execute-json
ExecuteJson ==
    \E task_name \in ExecNames, steps \in ExecSteps :
        /\ nOps < MaxOps
        /\ Applied("execute_json", task_name.s, execute_json(task_name, steps, World))

\* execute_task(task_name) as POST /execute-task calls it
ExecuteTask ==
    \E task_name \in (DOMAIN taskFiles) \cup {<<"m", "i", "s", "s", "i", "n", "g">>} :
        /\ nOps < MaxOps
        /\ Applied("execute_task", task_name, execute_task(task_name, World))

\* GET /developer-task/{task_name}
DeveloperTask ==
    \E task_name \in (DOMAIN taskFiles) \cup {<<"m", "i", "s", "s", "i", "n", "g">>} :
        /\ nOps < MaxOps
        /\ Applied("dev_task", task_name, dev_task(task_name, World))

\* generate_task_plan(user_prompt) as the main of Refined_backend.py calls it
RefinedTexts == {PlanInstagramLogin, PlanNotJson}

RefinedGenerateTask ==
    \E raw \in RefinedTexts :
        /\ nOps < MaxOps
        /\ \E r \in {Refined_generate_task_plan(raw, World)} :
               Applied("Refined_generate_task_plan", IF r.exc THEN <<>> ELSE r.result.s, r)

Next ==
    \/ GenerateTask
    \/ ModifyTask
    \/ ExecuteJson
    \/ ExecuteTask
    \/ DeveloperTask
    \/ RefinedGenerateTask

Spec == Init /\ [][Next]_vars



----------------------------------------------------------------------------
(* A plan saved to the task plan store and loaded again                    *)

MaxSteps == 2

\* strings with the characters json.dump escapes
RoundTargets == {<<"L", "o", "g", "i", "n">>, <<"s", "a", "y", " ", "\"", "h", "i", "\"", "\n">>}

RoundValues == {<<>>, <<"C", ":", "\\", "d", "i", "r", "\t", "x">>}

\* the steps of the data model: action, target and an optional value
RoundSteps ==
    {JObj(<<<<<<"a", "c", "t", "i", "o", "n">>, JStr(a)>>, <<<<"t", "a", "r", "g", "e", "t">>, JStr(t)>>>>) : a \in {<<"c", "l", "i", "c", "k">>, <<"t", "y", "p", "e">>}, t \in RoundTargets}
    \cup {JObj(<<<<<<"a", "c", "t", "i", "o", "n">>, JStr(a)>>, <<<<"t", "a", "r", "g", "e", "t">>, JStr(t)>>, <<<<"v", "a", "l", "u", "e">>, JStr(v)>>>>) :
              a \in {<<"c", "l", "i", "c", "k">>, <<"t", "y", "p", "e">>}, t \in RoundTargets, v \in RoundValues}

\* the sequences of at most n steps
RECURSIVE StepSeqs(_)
StepSeqs(n) ==
    IF n = 0 THEN {<<>>}
    ELSE StepSeqs(n - 1) \cup {Append(s, x) : s \in {q \in StepSeqs(n - 1) : Len(q) = n - 1}, x \in RoundSteps}

RoundInit ==
    /\ InitCommon
    /\ input \in {[plan |-> JObj(<<<<<<"t", "a", "s", "k">>, JStr(<<"m", "y", "_", "t", "a", "s", "k">>)>>, <<<<"s", "t", "e", "p", "s">>, JArr(s)>>>>)] :
                     s \in StepSeqs(MaxSteps)}

\* json.dump(plan, f, indent=2) to tasks/<task>.json and the stepwise text,
\* as generate_task_plan ends
SaveRound ==
    /\ ret.op = "none"
    /\ \E task_name \in {Get(input.plan, <<"t", "a", "s", "k">>, JNull).s} :
       \E r \in {SavePlan(input.plan, [file |-> envFile, environ |-> environ, log |-> <<>>],
                          task_name, World)} :
           /\ ret' = [op |-> "save", name |-> task_name, exc |-> r.exc]
           /\ taskFiles' = r.tasks
           /\ stepFiles' = r.steps
    /\ UNCHANGED <<envFile, environ, hist, input, nOps>>

\* GET /developer-task/<task> right after the save
LoadRound ==
    /\ ret.op = "save"
    /\ \E r \in {dev_task(ret.name, World)} :
           ret' = [op |-> "load", name |-> ret.name, exc |-> r.exc, result |-> r.result]
    /\ UNCHANGED <<envFile, environ, taskFiles, stepFiles, hist, input, nOps>>

RoundNext == SaveRound \/ LoadRound

SpecRound == RoundInit /\ [][RoundNext]_vars

----------------------------------------------------------------------------
(* A login plan is created and then modified                               *)

\* the names the generation service gives the plan
EditTasks == {<<"i", "n", "s", "t", "a", "g", "r", "a", "m">>, <<"i", "n", "s", "t", "a", "g", "r", "a", "m", " ", "l", "o", "g", "i", "n">>}

\* the targets of its password step
EditTargets == {<<"p", "a", "s", "s", "w", "o", "r", "d">>, <<"p", "w", "d">>, <<"P", "a", "s", "s">>, <<"p", "w", "d", " ", "f", "i", "e", "l", "d">>}

\* the plan the generation service returns for the login instruction
EditPlan(task, target) ==
    <<"{", "\"", "t", "a", "s", "k", "\"", ":", " ", "\"">> \o task \o <<"\"", ",", " ", "\"", "s", "t", "e", "p", "s", "\"", ":", " ", "[", "{", "\"", "a", "c", "t", "i", "o", "n", "\"", ":", " ", "\"", "c", "l", "i", "c", "k", "\"", ",", " ", "\"", "t", "a", "r", "g", "e", "t", "\"", ":", " ", "\"", "L", "o", "g", "i", "n", "\"", "}", ",", " ", "{", "\"", "a", "c", "t", "i", "o", "n", "\"", ":", " ", "\"", "t", "y", "p", "e", "\"", ",", " ", "\"", "t", "a", "r", "g", "e", "t", "\"", ":", " ", "\"">>
    \o target \o <<"\"", ",", " ", "\"", "v", "a", "l", "u", "e", "\"", ":", " ", "\"", "$", "{", "P", "A", "S", "S", "W", "O", "R", "D", "}", "\"", "}", "]", "}">>

\* modification instructions: without a password, and with one
EditInstructions == {<<"c", "l", "i", "c", "k", " ", "t", "h", "e", " ", "l", "o", "g", "i", "n", " ", "b", "u", "t", "t", "o", "n", " ", "t", "w", "i", "c", "e">>, <<"c", "h", "a", "n", "g", "e", " ", "t", "h", "e", " ", "p", "a", "s", "s", "w", "o", "r", "d", " ", "t", "o", " ", "N", "e", "w", "P", "a", "s", "s", "9">>}

\* what the user types at the getpass prompt of the modification
EditAnswers == {<<<<"p", "w", "1">>>>, <<<<>>>>}

EditInit ==
    /\ InitCommon
    /\ input \in {[raw |-> EditPlan(task, target), modification |-> m, typed |-> a] :
                     task \in EditTasks, target \in EditTargets, m \in EditInstructions, a \in EditAnswers}

\* the record of a call that gave r on the world W
EditApplied(op, name, instruction, r, W) ==
    /\ nOps' = nOps + 1
    /\ envFile' = r.file
    /\ environ' = r.environ
    /\ taskFiles' = r.tasks
    /\ stepFiles' = r.steps
    /\ hist' = RecordAll(hist, r.log)
    /\ ret' = [op |-> op, name |-> name, exc |-> r.exc, result |-> r.result, generated |-> r.generated,
               instruction |-> instruction, file_before |-> W.file, environ_before |-> W.environ,
               plan_before |-> IF name \in DOMAIN W.tasks THEN W.tasks[name] ELSE <<>>]
    /\ UNCHANGED input

\* generate_task_plan(LoginInstruction): the password comes from the instruction
CreatePlan ==
    /\ ret.op = "none"
    /\ \E r \in {generate_task_plan(LoginInstruction, JNull, input.raw, <<>>, World)} :
           EditApplied("generate_task_plan", IF r.exc THEN <<>> ELSE Get(r.result, <<"t", "a", "s", "k">>, JNull).s,
                       LoginInstruction, r, World)

\* modify_task_plan(task_name, modification) on the plan just stored; the
\* generation service answers with the stored document, or with a plan that
\* holds a literal in its password step
ModifyPlan ==
    /\ ret.op = "generate_task_plan" /\ ~ret.exc
    /\ \E raw \in {taskFiles[ret.name], PlanServiceInTarget} :
       \E r \in {modify_task_plan(ret.name, input.modification, raw, input.typed, World)} :
           EditApplied("modify_task_plan", ret.name, input.modification, r, World)

EditNext == CreatePlan \/ ModifyPlan

SpecEdit == EditInit /\ [][EditNext]_vars
----------------------------------------------------------------------------
(* Properties of the sanitizer pipeline                                    *)

\* the steps of a plan; none when "steps" is absent or no list
StepsOf(plan) ==
    Let(Get(plan, <<"s", "t", "e", "p", "s">>, JArr(<<>>)), LAMBDA steps : IF steps.t = "arr" THEN Items(steps) ELSE <<>>)

\* a password-like target: it contains "password", or the word "pass" or "pwd"
PasswordLike(target) ==
    Let(Lower(target), LAMBDA t :
        Contains(t, <<"p", "a", "s", "s", "w", "o", "r", "d">>) \/ HasWord(t, <<"p", "a", "s", "s">>) \/ HasWord(t, <<"p", "w", "d">>))

\* text is exactly of the form ${KEY}
ExactPlaceholder(text) ==
    Len(text) >= 4 /\ text[1] = "$" /\ text[2] = "{" /\ text[Len(text)] = "}"

\* step is a `type` step with a password-like target
PasswordStepOf(step) ==
    /\ step.t = "obj"
    /\ Get(step, <<"a", "c", "t", "i", "o", "n">>, JNull) = JStr(<<"t", "y", "p", "e">>)
    /\ Get(step, <<"t", "a", "r", "g", "e", "t">>, JNull).t = "str"
    /\ PasswordLike(Get(step, <<"t", "a", "r", "g", "e", "t">>, JNull).s)

\* the value of step is a placeholder ${KEY}
HoldsPlaceholder(step) ==
    Get(step, <<"v", "a", "l", "u", "e">>, JNull).t = "str" /\ ExactPlaceholder(Get(step, <<"v", "a", "l", "u", "e">>, JNull).s)

\* no `type` step of plan with a password-like target holds anything but a placeholder
NoLiteralSecret(plan) ==
    \A i \in 1..Len(StepsOf(plan)) : PasswordStepOf(StepsOf(plan)[i]) => HoldsPlaceholder(StepsOf(plan)[i])

\* C1: for every parsed plan and every instruction, after the sanitizer
\* pipeline has run, every `type` step whose target is password-like holds
\* a value of exactly the form ${KEY}, never a literal secret.
C1_PasswordStepsHoldPlaceholders ==
    (ret.op = "sanitize" /\ ret.runs = 1 /\ ~ret.exc) => NoLiteralSecret(ret.plan)

\* the plan whose password step has the target "Gmail password" keeps the
\* literal value after the pipeline
C1_LiteralKept ==
    /\ ret.op = "sanitize" /\ ret.runs = 1 /\ ~ret.exc
    /\ input.raw = PlanGmailPassword
    /\ \E i \in 1..Len(StepsOf(ret.plan)) :
           /\ PasswordStepOf(StepsOf(ret.plan)[i])
           /\ Get(StepsOf(ret.plan)[i], <<"v", "a", "l", "u", "e">>, JNull) = JStr(<<"h", "u", "n", "t", "e", "r", "2">>)

\* the plan document stored for the task name
StoredPlan(name) == json_loads(taskFiles[name]).val

\* C2: after any sequence of generate_task_plan, modify_task_plan and
\* /execute-json calls, every plan document of the task store holds, for each
\* `type` step with a password-like target, a placeholder ${KEY} and no raw
\* secret value.
C2_StoredPlansHoldNoSecret ==
    \A name \in DOMAIN taskFiles : NoLiteralSecret(StoredPlan(name))

\* /execute-json has stored a plan whose password step holds the secret as posted
C2_PostedSecretStored ==
    /\ ret.op = "execute_json" /\ ret.result = JStr(<<"s", "u", "c", "c", "e", "s", "s">>)
    /\ \E i \in 1..Len(StepsOf(StoredPlan(ret.name))) :
           /\ PasswordStepOf(StepsOf(StoredPlan(ret.name))[i])
           /\ Get(StepsOf(StoredPlan(ret.name))[i], <<"v", "a", "l", "u", "e">>, JNull) = JStr(<<"h", "u", "n", "t", "e", "r", "2">>)

\* the extractor's result for the login instruction of the scenario
ScenarioCredentials ==
    Let(extract_credentials_from_instruction(LoginInstruction), LAMBDA creds :
        creds.usernames = <<<<"b", "o", "b">>>> /\ creds.password = JStr(<<"S", "e", "c", "r", "e", "t", "1", "2", "3">>))

\* the file of the secret store holds the line key=value and the process
\* environment the same entry
StoreHolds(key, value) ==
    /\ \E i \in 1..Len(ReadLines(envFile)) : ReadLines(envFile)[i] = key \o <<"=">> \o value \o <<"\n">>
    /\ key \in DOMAIN environ
    /\ environ[key] = value

\* after the first run on the login instruction, every `type` step whose
\* target is "password" refers to key and the store holds key=Secret123
ScenarioStepsUse(key) ==
    \A i \in 1..Len(StepsOf(ret.plan)) :
        Let(StepsOf(ret.plan)[i], LAMBDA step :
            (/\ step.t = "obj"
             /\ Get(step, <<"a", "c", "t", "i", "o", "n">>, JNull) = JStr(<<"t", "y", "p", "e">>)
             /\ Get(step, <<"t", "a", "r", "g", "e", "t">>, JNull) = JStr(<<"p", "a", "s", "s", "w", "o", "r", "d">>))
                => /\ Get(step, <<"v", "a", "l", "u", "e">>, JNull) = JStr(<<"$", "{">> \o key \o <<"}">>)
                   /\ StoreHolds(key, <<"S", "e", "c", "r", "e", "t", "1", "2", "3">>))

ScenarioRun == ret.op = "sanitize" /\ ret.runs = 1 /\ ~ret.exc /\ input.instruction = LoginInstruction

TaskSeen(parsed) == Get(replace_urls_with_service(remove_urls(parsed)), <<"t", "a", "s", "k">>, JStr(<<"G", "E", "N", "E", "R", "A", "L">>))

C6_SecondRunChangesNothing ==
    (ret.op = "sanitize" /\ ret.runs = 2 /\ ~ret.exc) => ret.plan = ret.parsed

\* the second run has put another key into the password step
C6_KeyChanged ==
    /\ ret.op = "sanitize" /\ ret.runs = 2 /\ ~ret.exc
    /\ input.raw = PlanInstagramLogin
    /\ \E i \in 1..Len(StepsOf(ret.plan)) :
           /\ Get(StepsOf(ret.parsed)[i], <<"v", "a", "l", "u", "e">>, JNull) = JStr(<<"$", "{", "P", "A", "S", "S", "W", "O", "R", "D", "_", "I", "N", "S", "T", "A", "G", "R", "A", "M", " ", "L", "O", "G", "I", "N", "}">>)
           /\ Get(StepsOf(ret.plan)[i], <<"v", "a", "l", "u", "e">>, JNull) = JStr(<<"$", "{", "P", "A", "S", "S", "W", "O", "R", "D", "_", "I", "N", "S", "T", "A", "G", "R", "A", "M", "_", "L", "O", "G", "I", "N", "}">>)

----------------------------------------------------------------------------
(* Properties of the secret store                                          *)

\* C4: after store_in_env(key, value), resolve_secret("${key}") returns
\* exactly value as long as no later set of the same key intervenes, for
\* every key and value (sets of other keys may intervene).
C4_ResolveReturnsStored ==
    (ret.op = "resolve_secret" /\ ret.key \in DOMAIN hist.written)
        => ret.result = hist.written[ret.key]

\* a key with a line break has been stored, and resolving its placeholder
\* gives the placeholder back
C4_PlaceholderReturned ==
    /\ ret.op = "resolve_secret"
    /\ ret.key = <<"K", "\n", "B">>
    /\ ret.key \in DOMAIN hist.written
    /\ ret.result = <<"$", "{", "K", "\n", "B", "}">>

\* The lines of the file that the store takes for the entry of key
LinesOf(text, key) == {i \in 1..Len(ReadLines(text)) : StartsWith(ReadLines(text)[i], key \o <<"=">>)}

\* what the last store_in_env call did to the lines of the file
StoreReplacedInPlace ==
    LET before == ReadLines(ret.fileBefore)
        after == ReadLines(envFile)
    IN /\ Len(after) = Len(before)
       /\ \E i \in LinesOf(ret.fileBefore, ret.key) :
              after = [before EXCEPT ![i] = ret.key \o <<"=">> \o ret.value \o <<"\n">>]

StoreAppendedOne ==
    ReadLines(envFile) = Append(ReadLines(ret.fileBefore), ret.key \o <<"=">> \o ret.value \o <<"\n">>)

StoreKeepsOneLinePerKey ==
    /\ \A key \in hist.keys : Cardinality(LinesOf(envFile, key)) = 1
    /\ Len(ReadLines(envFile)) = Cardinality(hist.keys)
    /\ ret.op = "store_in_env" =>
           IF ret.known THEN StoreReplacedInPlace ELSE StoreAppendedOne

\* C5 (as stated): starting from an empty file, after any sequence of
\* store_in_env calls the file holds at most one KEY=VALUE line per key; a
\* set on an existing key replaces that key's line in place and keeps the
\* number of lines, and a set on a new key appends exactly one line.
C5_OneLinePerKey_Original == StoreKeepsOneLinePerKey

\* C5 (amended): the same, for calls whose keys are non-empty and hold no
\* "=" or line break and whose values hold no line break.
C5_OneLinePerKey == hist.clean => StoreKeepsOneLinePerKey

C5_Witness ==
    /\ hist.clean
    /\ ret.op = "store_in_env" /\ ret.known
    /\ ret.value = <<"a", "=", "b">>
    /\ Cardinality(hist.keys) = 2
    /\ LinesOf(ret.fileBefore, ret.key) = {1}

----------------------------------------------------------------------------
(* Properties of the response normaliser                                   *)

\* C7: for every raw text whose normalisation fails (no {...} candidate, or
\* a candidate that does not parse), clean_json_response returns
\* {"raw_text": <the unmodified input text>} and raises nothing.
C7_FallbackKeepsInput ==
    (ret.op = "clean_json_response" /\ ret.failed)
        => ret.result = JObj(<<<<<<"r", "a", "w", "_", "t", "e", "x", "t">>, JStr(ret.raw)>>>>)

\* the fallback of a text with an unparsable candidate holds the candidate only
C7_CandidateReturned ==
    /\ ret.op = "clean_json_response" /\ ret.failed
    /\ ret.raw = <<"H", "e", "r", "e", " ", "{", "n", "o", "t", " ", "j", "s", "o", "n", "}", " ", "b", "y", "e">>
    /\ ret.result = JObj(<<<<<<"r", "a", "w", "_", "t", "e", "x", "t">>, JStr(<<"{", "n", "o", "t", " ", "j", "s", "o", "n", "}">>)>>>>)

\* C8: for every input text on which clean_json_response returns a fallback
\* object F = {"raw_text": t}, normalising the JSON serialization of F
\* returns an object equal to F.
C8_FallbackIsFixedPoint ==
    ret.op = "renormalize" => ret.result = ret.first

\* a fallback that holds a code fence comes back without it
C8_FenceLost ==
    /\ ret.op = "renormalize"
    /\ ret.first = JObj(<<<<<<"r", "a", "w", "_", "t", "e", "x", "t">>, JStr(<<"BACKTICK", "BACKTICK", "BACKTICK", "j", "s", "o", "n", "\n", "n", "o", "t", " ", "j", "s", "o", "n">>)>>>>)
    /\ ret.result = JObj(<<<<<<"r", "a", "w", "_", "t", "e", "x", "t">>, JStr(<<"\n", "n", "o", "t", " ", "j", "s", "o", "n">>)>>>>)

----------------------------------------------------------------------------
(* Properties of the task manager                                          *)

\* the last call has written the plan and the stepwise text of ret.name
Wrote ==
    /\ ret.op \in {"generate_task_plan", "modify_task_plan", "execute_json"}
    /\ ~ret.exc
    /\ ret.result \notin {JNull, JStr(<<"e", "r", "r", "o", "r">>)}
    /\ ret.name \in (DOMAIN taskFiles) \cap (DOMAIN stepFiles)

\* the lines of a text ("\n".join undone)
RECURSIVE TextLines(_)
TextLines(text) ==
    Let(Scan(text, 1, LAMBDA c : c = "\n"), LAMBDA e :
        IF e > Len(text) THEN <<text>>
        ELSE <<SubSeq(text, 1, e - 1)>> \o TextLines(From(text, e + 1)))

EndsWith(s, p) == Len(p) <= Len(s) /\ SubSeq(s, Len(s) - Len(p) + 1, Len(s)) = p

\* step has a value, a string as the data model has it, and a target that
\* contains the word "password" in any letter case
ValueUnderPassword(step) ==
    /\ step.t = "obj"
    /\ HasKey(step, <<"v", "a", "l", "u", "e">>)
    /\ Get(step, <<"v", "a", "l", "u", "e">>, JNull).t = "str"
    /\ Get(step, <<"t", "a", "r", "g", "e", "t">>, JNull).t = "str"
    /\ Contains(Lower(Get(step, <<"t", "a", "r", "g", "e", "t">>, JNull).s), <<"p", "a", "s", "s", "w", "o", "r", "d">>)

\* line i of the stepwise text shows the target and eight asterisks as the value
ShowsMask(lines, i, step) ==
    /\ i <= Len(lines)
    /\ StartsWith(lines[i], <<"S", "t", "e", "p", " ">> \o IntToStr(i) \o <<":", " ">>)
    /\ EndsWith(lines[i], <<" ", "-", ">", " ">> \o Get(step, <<"t", "a", "r", "g", "e", "t">>, JNull).s \o <<" ", "|", " ", "V", "a", "l", "u", "e", ":", " ", "*", "*", "*", "*", "*", "*", "*", "*">>)

\* C9: for every step that has a value (a string) and whose target contains
\* the word "password" in any letter case, json_to_stepwise_text renders the
\* value as eight asterisks, whatever the value or its resolved secret is.
C9_PasswordValuesMasked ==
    Wrote => \A i \in 1..Len(StepsOf(StoredPlan(ret.name))) :
                 ValueUnderPassword(StepsOf(StoredPlan(ret.name))[i])
                     => ShowsMask(TextLines(stepFiles[ret.name]), i, StepsOf(StoredPlan(ret.name))[i])

C9_Witness ==
    /\ Wrote
    /\ ret.op = "execute_json"
    /\ StepsOf(StoredPlan(ret.name)) = <<StepClick, StepRawSecret>>
    /\ TextLines(stepFiles[ret.name])[2] = <<"S", "t", "e", "p", " ", "2", ":", " ", "T", "y", "p", "e", " ", "-", ">", " ", "P", "a", "s", "s", "w", "o", "r", "d", " ", "|", " ", "V", "a", "l", "u", "e", ":", " ", "*", "*", "*", "*", "*", "*", "*", "*">>

NamedIn(target) == {n \in Range(ServiceNames) : Contains(Lower(target), n)}

----------------------------------------------------------------------------
(* Properties of the lookups and of the stored documents                   *)

\* the last call looked up a task name that has no stored document
LookupOfMissing ==
    /\ ret.op \in {"execute_task", "modify_task_plan", "dev_task"}
    /\ ret.name \notin DOMAIN taskFiles

\* a result that tells the caller of the failure: an object with the status "error"
StructuredFailure(result) == result.t = "obj" /\ Get(result, <<"s", "t", "a", "t", "u", "s">>, JNull) = JStr(<<"e", "r", "r", "o", "r">>)

\* C11: every operation that looks up a task by name (execute_task,
\* modify_task_plan, the developer-task lookup) on a name with no stored
\* document returns a structured failure result, raises no exception, issues
\* no generation call and leaves the task store and the secret store unchanged.
C11_MissingTaskFailsCleanly ==
    [][LookupOfMissing' =>
          /\ UNCHANGED <<envFile, environ, taskFiles, stepFiles>>
          /\ ~ret'.exc
          /\ ~ret'.generated
          /\ StructuredFailure(ret'.result)]_vars

\* modify_task_plan on a missing task has returned None
C11_NoneReturned ==
    /\ ret.op = "modify_task_plan"
    /\ ret.name = <<"m", "i", "s", "s", "i", "n", "g">>
    /\ ret.name \notin DOMAIN taskFiles
    /\ ~ret.exc
    /\ ret.result = JNull

\* C12: for every object the response normaliser can return, the stages
\* remove_urls, replace_urls_with_service and handle_login_credentials finish
\* without an exception propagating to the caller.
C12_StagesRaiseNothing ==
    (ret.op = "sanitize" /\ ret.runs = 1) => ~ret.stage_exc

\* on a plan whose task is null, handle_login_credentials has raised
C12_NullTaskRaised ==
    /\ ret.op = "sanitize" /\ ret.runs = 1
    /\ input.raw = PlanNullTask
    /\ ret.stage_exc

\* a storage key in normal form: lower case, no space
NormalKey(k) == k = Lower(k) /\ \A i \in 1..Len(k) : k[i] # " "

\* C13: every key under which generate_task_plan, modify_task_plan or the
\* /execute-json direct edit writes a plan document to the task plan store
\* is lower case and contains no space.
C13_KeysAreNormal == \A k \in DOMAIN taskFiles : NormalKey(k)

\* /execute-json has stored a document under the name as it was posted
C13_KeyAsPosted ==
    /\ ret.op = "execute_json"
    /\ ret.name = <<"M", "y", " ", "T", "a", "s", "k">>
    /\ ret.name \in DOMAIN taskFiles
    /\ ~NormalKey(ret.name)

\* the document stored under key k is an object whose task field is k
TaskFieldIsKey(k) ==
    Let(json_loads(taskFiles[k]), LAMBDA loaded :
        loaded.ok /\ loaded.val.t = "obj" /\ Get(loaded.val, <<"t", "a", "s", "k">>, JNull) = JStr(k))

\* C14: after any sequence of generate, modify and direct-edit operations,
\* every document of the task plan store has a task field equal to the key
\* it is stored under, whatever task name the generator proposed.
C14_TaskFieldIsKey == \A k \in DOMAIN taskFiles : TaskFieldIsKey(k)

\* the generation of Refined_backend.py has stored a document under the
\* slug of the name the generator proposed, with that name left in it
C14_ProposedNameKept ==
    /\ ret.op = "Refined_generate_task_plan"
    /\ ret.name = <<"i", "n", "s", "t", "a", "g", "r", "a", "m", "_", "l", "o", "g", "i", "n">>
    /\ ret.name \in DOMAIN taskFiles
    /\ Get(json_loads(taskFiles[ret.name]).val, <<"t", "a", "s", "k">>, JNull) = JStr(<<"i", "n", "s", "t", "a", "g", "r", "a", "m", " ", "l", "o", "g", "i", "n">>)

\* C15: for every structurally valid plan, saving it to the task plan store
\* and then loading the document of the same task name, with no other write
\* to that name in between, returns a plan with the same content: the same
\* task and the same steps in the same order, each with the same action,
\* target and value.
C15_LoadReturnsSaved ==
    ret.op = "load" => ~ret.exc /\ Get(ret.result, <<"p", "l", "a", "n">>, JNull) = input.plan

\* a plan whose strings hold quotes, a newline, a tab and backslashes has
\* been saved and loaded
C15_Witness ==
    /\ ret.op = "load"
    /\ Len(Items(Get(input.plan, <<"s", "t", "e", "p", "s">>, JNull))) = 2
    /\ \A i \in 1..2 :
           /\ Get(Items(Get(input.plan, <<"s", "t", "e", "p", "s">>, JNull))[i], <<"t", "a", "r", "g", "e", "t">>, JNull) = JStr(<<"s", "a", "y", " ", "\"", "h", "i", "\"", "\n">>)
           /\ Get(Items(Get(input.plan, <<"s", "t", "e", "p", "s">>, JNull))[i], <<"v", "a", "l", "u", "e">>, JNull) = JStr(<<"C", ":", "\\", "d", "i", "r", "\t", "x">>)

\* the list the spec's scenario expects for the flight instruction
FlightMissingInfo ==
    JArr(<<JStr(<<"n", "u", "m", "b", "e", "r", "_", "o", "f", "_", "p", "a", "s", "s", "e", "n", "g", "e", "r", "s">>), JStr(<<"s", "e", "a", "t", "_", "c", "l", "a", "s", "s">>), JStr(<<"f", "l", "i", "g", "h", "t", "_", "t", "y", "p", "e">>)>>)

\* the create operation has just stored the plan of the flight instruction
FlightPlanCreated ==
    /\ ret.op = "generate_task_plan"
    /\ ~ret.exc
    /\ ret.name = <<"b", "o", "o", "k", "_", "f", "l", "i", "g", "h", "t">>
    /\ ret.name \in DOMAIN taskFiles

\* C16: for the instruction "Book a flight from Delhi to Mumbai on 12 March
\* 2025" the missing fields are number_of_passengers, seat_class and
\* flight_type, and the plan document the create operation persists carries
\* that list under its missing_info property.
C16_FlightPlanCarriesMissingInfo ==
    FlightPlanCreated =>
        Get(json_loads(taskFiles[ret.name]).val, <<"m", "i", "s", "s", "i", "n", "g", "_", "i", "n", "f", "o">>, JNull) = FlightMissingInfo

\* the flight plan has been persisted without a missing_info property
C16_NoMissingInfo ==
    /\ FlightPlanCreated
    /\ json_loads(taskFiles[ret.name]).ok
    /\ ~HasKey(json_loads(taskFiles[ret.name]).val, <<"m", "i", "s", "s", "i", "n", "g", "_", "i", "n", "f", "o">>)

----------------------------------------------------------------------------
(* Properties of credential substitution and of the extractor              *)

\* the plan handle_login_credentials is given in the first run of the stages
StagedPlan == replace_urls_with_service(remove_urls(ret.parsed))

\* the step holds a value that is neither empty nor of the form ${...}
HoldsLiteral(step) ==
    /\ Get(step, <<"v", "a", "l", "u", "e">>, JNull).t = "str"
    /\ Get(step, <<"v", "a", "l", "u", "e">>, JNull).s # <<>>
    /\ ~ExactPlaceholder(Get(step, <<"v", "a", "l", "u", "e">>, JNull).s)

\* neither the instruction nor the step gives a secret for the password step
NeedsPrompt(step, instruction) ==
    /\ PasswordStepOf(step)
    /\ extract_credentials_from_instruction(instruction).password = JNull
    /\ ~HoldsLiteral(step)

\* the secret the precedence of the claim picks for step i of steps: the
\* password of the instruction, else the literal value of the step, else the
\* answer at the prompt made for the step
PickedSecret(steps, i, instruction, typed) ==
    Let(extract_credentials_from_instruction(instruction).password, LAMBDA password :
        IF password # JNull THEN password.s
        ELSE IF HoldsLiteral(steps[i]) THEN Get(steps[i], <<"v", "a", "l", "u", "e">>, JNull).s
        ELSE Answer(typed, Cardinality({j \in 1..i : NeedsPrompt(steps[j], instruction)})))

\* the key PASSWORD_<SERVICE> of a password step of the plan
PasswordKey(step, plan) ==
    <<"P", "A", "S", "S", "W", "O", "R", "D", "_">> \o detect_service_from_text(Lower(Get(step, <<"t", "a", "r", "g", "e", "t">>, JNull).s),
                                              Get(plan, <<"t", "a", "s", "k">>, JStr(<<"G", "E", "N", "E", "R", "A", "L">>))).s

\* step i of the staged plan was given the picked secret: stored under its
\* key (the last step of a key decides the stored value) and replaced by the
\* placeholder, or left as it was when the picked secret is empty
PrecedenceFollowed(i) ==
    Let(StepsOf(StagedPlan), LAMBDA steps :
    Let(PickedSecret(steps, i, input.instruction, input.typed), LAMBDA picked :
    Let(PasswordKey(steps[i], StagedPlan), LAMBDA key :
        IF picked = <<>> THEN StepsOf(ret.plan)[i] = steps[i]
        ELSE /\ Get(StepsOf(ret.plan)[i], <<"v", "a", "l", "u", "e">>, JNull) = JStr(Placeholder(key))
             /\ key \in hist.keys
             /\ (\A j \in (i + 1)..Len(steps) :
                     PasswordStepOf(steps[j]) => PasswordKey(steps[j], StagedPlan) # key)
                    => StoreHolds(key, picked))))

\* C17: for a password-like `type` step, credential substitution picks the
\* secret by strict precedence: the password of the instruction, else the
\* step's value when it is non-empty and not of the form ${...}, else the
\* value typed at the prompt.  A non-empty picked secret is stored under
\* PASSWORD_<SERVICE> and the step value becomes ${PASSWORD_<SERVICE>}; the
\* prompt is made only when the first two sources are unavailable.
C17_SecretPickedByPrecedence ==
    (ret.op = "sanitize" /\ ret.runs = 1 /\ ~ret.exc) =>
        /\ \A i \in 1..Len(StepsOf(StagedPlan)) :
               PasswordStepOf(StepsOf(StagedPlan)[i]) => PrecedenceFollowed(i)
        /\ ret.asked = Cardinality({i \in 1..Len(StepsOf(StagedPlan)) :
                                       NeedsPrompt(StepsOf(StagedPlan)[i], input.instruction)})

\* the literal value of the step "Gmail password" is the one secret at
\* hand, and the stages neither stored it nor replaced it
C17_LiteralNotStored ==
    /\ ret.op = "sanitize" /\ ret.runs = 1 /\ ~ret.exc
    /\ input.raw = PlanGmailPassword
    /\ extract_credentials_from_instruction(input.instruction).password = JNull
    /\ PasswordStepOf(StepsOf(StagedPlan)[1])
    /\ HoldsLiteral(StepsOf(StagedPlan)[1])
    /\ HoldsLiteral(StepsOf(ret.plan)[1])
    /\ hist.keys = {}

\* the candidate of the last match: its group without surrounding whitespace
LastCandidate == Strip(ret.matches[Len(ret.matches)])

\* the words the claim names as fillers, and the empty candidate
ClaimFillers == {<<"t", "o">>, <<"a", "n", "d">>, <<"w", "a", "s">>, <<"i", "s">>, <<"s", "e", "t">>, <<>>}

\* text is candidate without the `.` and `;` characters it ends with
WithoutTrailingDots(text, candidate) ==
    /\ Len(text) <= Len(candidate)
    /\ text = SubSeq(candidate, 1, Len(text))
    /\ \A k \in (Len(text) + 1)..Len(candidate) : candidate[k] \in {".", ";"}
    /\ text # <<>> => text[Len(text)] \notin {".", ";"}

\* extract_credentials_from_instruction has run on an instruction in which
\* pwd_pattern matches
ExtractedWithMatches == ret.op = "extract_credentials_from_instruction" /\ ret.matches # <<>>

\* C18 as stated: with several password markers the extractor returns the
\* candidate of the last match; when that candidate is, in any letter case,
\* one of the filler words to, and, was, is, set, or is empty, the password
\* is absent (None), even if an earlier match was a usable candidate.
C18_LastCandidateReturned ==
    ExtractedWithMatches =>
        ret.creds.password = IF Lower(LastCandidate) \in ClaimFillers THEN JNull ELSE JStr(LastCandidate)

\* C18, amended: the extractor returns the candidate of the last match
\* without the `.` and `;` characters it ends with; when that candidate is a
\* filler word or empty, the password is absent, even if an earlier match
\* was usable.
C18_LastCandidateWithoutDots ==
    ExtractedWithMatches =>
        IF Lower(LastCandidate) \in ClaimFillers THEN ret.creds.password = JNull
        ELSE /\ ret.creds.password.t = "str"
             /\ WithoutTrailingDots(ret.creds.password.s, LastCandidate)

\* two matches, the first a usable candidate, the last a filler word: the
\* password is absent
C18_Witness ==
    /\ ExtractedWithMatches
    /\ Len(ret.matches) = 2
    /\ Lower(Strip(ret.matches[1])) \notin ClaimFillers
    /\ Lower(LastCandidate) \in ClaimFillers
    /\ ret.creds.password = JNull

\* some string of the JSON value v, at any depth, holds http:// or https://
RECURSIVE HasUrlToken(_)
HasUrlToken(v) ==
    CASE v.t = "str" -> Contains(v.s, <<"h", "t", "t", "p", ":", "/", "/">>) \/ Contains(v.s, <<"h", "t", "t", "p", "s", ":", "/", "/">>)
      [] v.t \in {"obj", "arr"} -> \E i \in 1..Len(v.kv) : HasUrlToken(v.kv[i][2])
      [] OTHER -> FALSE

\* C19: after the sanitizer pipeline (URL redaction, service
\* canonicalization, credential substitution) no string field of the
\* resulting plan holds an http:// or https:// token, the step values filled
\* in from the credentials of the instruction included.
C19_NoUrlAfterPipeline ==
    (ret.op = "sanitize" /\ ~ret.exc) => ~HasUrlToken(ret.plan)

\* the user name taken from the instruction is a URL, and the pipeline has
\* written it into the username step after the redaction
C19_UrlFilledIn ==
    /\ ret.op = "sanitize" /\ ret.runs = 1 /\ ~ret.exc
    /\ input.instruction = UrlUserInstruction
    /\ ~HasUrlToken(StagedPlan)
    /\ \E i \in 1..Len(StepsOf(ret.plan)) :
           Get(StepsOf(ret.plan)[i], <<"v", "a", "l", "u", "e">>, JNull) = JStr(<<"h", "t", "t", "p", "s", ":", "/", "/", "m", "e", ".", "e", "x", "a", "m", "p", "l", "e", "/", "b", "o", "b">>)

----------------------------------------------------------------------------
(* Properties of the stepwise text                                         *)

\* `Step i: <Action capitalized> -> <target>` for step number i
LineHead(i, step) ==
    <<"S", "t", "e", "p", " ">> \o IntToStr(i) \o <<":", " ">> \o Capitalize(Get(step, <<"a", "c", "t", "i", "o", "n">>, JStr(<<>>)).s)
    \o <<" ", "-", ">", " ">> \o Get(step, <<"t", "a", "r", "g", "e", "t">>, JStr(<<>>)).s

\* the step has a value: a string that is not empty
HasValue(step) == Get(step, <<"v", "a", "l", "u", "e">>, JNull).t = "str" /\ Get(step, <<"v", "a", "l", "u", "e">>, JNull).s # <<>>

\* line is the line of step number i: the head, and the suffix ` | Value:
\* ...` exactly when the step has a value
LineOfStep(line, i, step) ==
    /\ StartsWith(line, LineHead(i, step))
    /\ IF HasValue(step)
       THEN StartsWith(SubSeq(line, Len(LineHead(i, step)) + 1, Len(line)), <<" ", "|", " ", "V", "a", "l", "u", "e", ":", " ">>)
       ELSE line = LineHead(i, step)

\* C20: for every plan with n >= 1 steps json_to_stepwise_text produces
\* exactly n lines in step order, line i being `Step i: <Action
\* capitalized> -> <target>` with the numbering starting at 1, and line i
\* carries the suffix ` | Value: ...` exactly when step i has a value, a
\* placeholder whose key is unset in the environment included.
C20_LinesFollowSteps ==
    (Wrote /\ Len(StepsOf(StoredPlan(ret.name))) >= 1) =>
        Let(StepsOf(StoredPlan(ret.name)), LAMBDA steps :
        Let(TextLines(stepFiles[ret.name]), LAMBDA lines :
            /\ Len(lines) = Len(steps)
            /\ \A i \in 1..Len(steps) : LineOfStep(lines[i], i, steps[i])))

\* the username step holds the placeholder ${USERNAME}, no such key is set,
\* and its line ends after the target
C20_PlaceholderWithoutSuffix ==
    /\ Wrote
    /\ <<"U", "S", "E", "R", "N", "A", "M", "E">> \notin DOMAIN environ
    /\ \E i \in 1..Len(StepsOf(StoredPlan(ret.name))) :
           /\ Get(StepsOf(StoredPlan(ret.name))[i], <<"v", "a", "l", "u", "e">>, JNull) = JStr(<<"$", "{", "U", "S", "E", "R", "N", "A", "M", "E", "}">>)
           /\ Len(TextLines(stepFiles[ret.name])) = Len(StepsOf(StoredPlan(ret.name)))
           /\ TextLines(stepFiles[ret.name])[i] = LineHead(i, StepsOf(StoredPlan(ret.name))[i])

----------------------------------------------------------------------------
(* Properties of the password the extractor returns                        *)

\* the last token of the instruction: what follows its last space
LastToken(instruction) ==
    Let({i \in 1..Len(instruction) : instruction[i] = " "}, LAMBDA spaces :
        IF spaces = {} THEN instruction
        ELSE SubSeq(instruction, Max(spaces) + 1, Len(instruction)))

\* token is made of letters and digits only
LettersAndDigits(token) ==
    /\ token # <<>>
    /\ \A k \in 1..Len(token) : IsDigit(token[k]) \/ LowerChar(token[k]) \in Range(LowerLetters)

\* the instruction ends with `password <P>`, P a token of letters and
\* digits that is no filler word
EndsWithPasswordToken(instruction) ==
    Let(LastToken(instruction), LAMBDA P :
        /\ LettersAndDigits(P)
        /\ Lower(P) \notin ClaimFillers
        /\ EndsWith(SubSeq(instruction, 1, Len(instruction) - Len(P)), <<"p", "a", "s", "s", "w", "o", "r", "d", " ">>))

\* C22: for every instruction that ends with `password <P>`, P a single
\* token of letters and digits that is not a filler word,
\* extract_credentials_from_instruction returns the whole of P as the
\* password, never a truncated prefix or suffix of it.
C22_WholePasswordReturned ==
    (ret.op = "extract_credentials_from_instruction" /\ EndsWithPasswordToken(input.instruction)) =>
        ret.creds.password = JStr(LastToken(input.instruction))

\* the instruction ends with `password <P>` and the extractor returned a
\* proper part of P: a prefix cut before "and", or a suffix after a
\* leading "is"
C22_PartOfPasswordReturned ==
    /\ ret.op = "extract_credentials_from_instruction"
    /\ EndsWithPasswordToken(input.instruction)
    /\ ret.creds.password.t = "str"
    /\ Len(ret.creds.password.s) < Len(LastToken(input.instruction))
    /\ \/ StartsWith(LastToken(input.instruction), ret.creds.password.s)
       \/ EndsWith(LastToken(input.instruction), ret.creds.password.s)

----------------------------------------------------------------------------
(* Properties of a plan that is created and then modified                  *)

\* credential substitution replaced the value of step: a `type` step with
\* a password-like target that holds ${PASSWORD_<SERVICE>}
SubstitutedStep(step) ==
    /\ PasswordStepOf(step)
    /\ HoldsPlaceholder(step)
    /\ StartsWith(Get(step, <<"v", "a", "l", "u", "e">>, JNull).s, <<"$", "{", "P", "A", "S", "S", "W", "O", "R", "D", "_">>)

\* the key a placeholder ${KEY} names
KeyOf(placeholder) == SubSeq(placeholder, 3, Len(placeholder) - 1)

\* the stepwise text of the task shows the secret stored for step
ShowsSecretOf(step, name) ==
    /\ KeyOf(Get(step, <<"v", "a", "l", "u", "e">>, JNull).s) \in DOMAIN environ
    /\ Contains(stepFiles[name], environ[KeyOf(Get(step, <<"v", "a", "l", "u", "e">>, JNull).s)])

\* C21: the stepwise rendering never reveals a stored password: for every
\* `type` step whose value credential substitution replaced by
\* ${PASSWORD_<SERVICE>} (targets containing "password" or the word "pass"
\* or "pwd"), the text written to the _steps.txt file does not contain the
\* secret value stored under that key.
C21_TextHidesStoredPassword ==
    Wrote =>
        \A i \in 1..Len(StepsOf(StoredPlan(ret.name))) :
            SubstitutedStep(StepsOf(StoredPlan(ret.name))[i]) =>
                ~ShowsSecretOf(StepsOf(StoredPlan(ret.name))[i], ret.name)

\* generate_task_plan stored the password of the instruction for a step
\* whose target does not contain "password", and the text of the task shows it
C21_SecretShown ==
    /\ Wrote
    /\ ret.op = "generate_task_plan"
    /\ \E i \in 1..Len(StepsOf(StoredPlan(ret.name))) :
           /\ SubstitutedStep(StepsOf(StoredPlan(ret.name))[i])
           /\ ~Contains(Lower(Get(StepsOf(StoredPlan(ret.name))[i], <<"t", "a", "r", "g", "e", "t">>, JNull).s), <<"p", "a", "s", "s", "w", "o", "r", "d">>)
           /\ ShowsSecretOf(StepsOf(StoredPlan(ret.name))[i], ret.name)
           /\ Contains(stepFiles[ret.name], <<" ", "|", " ", "V", "a", "l", "u", "e", ":", " ", "S", "e", "c", "r", "e", "t", "1", "2", "3">>)

\* modify_task_plan has run to its end on a stored plan whose password steps
\* held placeholders, with an instruction in which the extractor finds no
\* password
ModifiedWithoutPassword ==
    /\ ret.op = "modify_task_plan"
    /\ ~ret.exc
    /\ ret.result # JNull
    /\ extract_credentials_from_instruction(ret.instruction).password = JNull
    /\ json_loads(ret.plan_before).ok
    /\ NoLiteralSecret(json_loads(ret.plan_before).val)

\* C23: a modification whose instruction contains no password does not
\* change the Secret Store: when modify_task_plan runs on a stored plan whose
\* password steps already hold ${KEY} placeholders and the extractor finds no
\* password in the modification instruction, every Secret Store entry has
\* the same value after the operation as before it.
C23_ModificationKeepsSecrets ==
    ModifiedWithoutPassword =>
        \A key \in DOMAIN ret.environ_before :
            key \in DOMAIN environ /\ environ[key] = ret.environ_before[key]

\* such a modification gave an entry of the Secret Store another value
C23_EntryOverwritten ==
    /\ ModifiedWithoutPassword
    /\ \E key \in (DOMAIN ret.environ_before) \cap (DOMAIN environ) :
           /\ ret.environ_before[key] = <<"S", "e", "c", "r", "e", "t", "1", "2", "3">>
           /\ environ[key] # ret.environ_before[key]
====
